---- MODULE Spec2Model ----
(***************************************************************************)
(* A model of the networking substrate of gserv: the length-prefix codec   *)
(* (MsgParser), the framed connections with their writer task and bounded  *)
(* outbound queue (TCPConn, WSConn), and the accept / dial supervisors     *)
(* (TCPServer, WSServer, TCPClient, WSClient).                             *)
(***************************************************************************)
EXTENDS Integers, Sequences, FiniteSets, TLC

(***************************************************************************)
(* Bounds of the model.                                                    *)
(***************************************************************************)
\* longest payload (sum of the parts of one WriteMsg) the model writes
MaxLen == 2
\* largest PendingWriteNum (capacity of a connection's outbound queue)
MaxPendingWriteNum == 2
\* calls (WriteMsg, Close, Destroy) one application goroutine makes
MaxCalls == 3
\* connections the model creates
MaxConns == 2
\* message types the application registers with the Processor
MaxTypes == 2
\* Register calls made on the Processor (beyond those of its initial state)
MaxRegs == 3
\* SetHandler / SetRawHandler calls made on the Processor
MaxSets == 2
\* frames the agents of a gate read
MaxFrames == 2
\* the largest capacity of a chanrpc Server's channel
MaxChan == 2
\* Go calls one goroutine makes on a chanrpc Server
MaxGo == 2
\* AsynCalls a Skeleton makes
MaxAsyn == 2
\* registered modules
MaxMods == 3
\* accept errors in one run of the accept loop
MaxErrs == 10
\* accepts that succeed in one run of the accept loop
MaxAccepts == 2
\* the largest AsynCallLen of a Skeleton
MaxAsynCallLen == 1

(***************************************************************************)
(* Program constants.                                                      *)
(***************************************************************************)
MaxUint8 == 255
MaxUint16 == 65535
DefaultLenMsgLen == 2
DefaultMinMsgLen == 1
DefaultMaxMsgLen == 4096

VARIABLES
    msgParser,  \* the MsgParser: lenMsgLen, minMsgLen, maxMsgLen, littleEndian
    wire,       \* bytes MsgParser.Write handed to the stream, not yet read
    sent,       \* the payloads of the frames on the wire, oldest first
    lastRead,   \* the outcome of the latest MsgParser.Read
    tc,         \* the TCPConn / WSConn objects, by connection id
    call,       \* per goroutine: the connection call it is in the middle of
    hist,       \* per goroutine: the calls it has completed, oldest first
    sup,        \* the TCPServer / WSServer / TCPClient / WSClient object
    run,        \* the server's accept loop
    rd,         \* per connection: the goroutine that serves it
    wk,         \* per dial slot of a client: its connect() goroutine
    cl,         \* the goroutine that calls the supervisor's Close
    onClose,    \* per connection: the OnClose calls made on its agent
    proc,       \* the protobuf Processor: littleEndian, msgInfo, msgID
    pr,         \* the latest frame a reader put through the Processor
    rpc,        \* the chanrpc Server: functions, ChanCall
    rpcCall,    \* per goroutine: the chanrpc call it is in the middle of
    goHist,     \* per goroutine: the chanrpc calls it has completed
    executed,   \* the calls the server's owner has executed, oldest first
    owner,      \* the goroutine that owns the chanrpc Server (Skeleton.Run)
    outcome,    \* how the executed calls ended, oldest first
    client,     \* the chanrpc Client: ChanAsynRet, pendingAsynCall
    skel,       \* the goroutine that owns the Client (Skeleton.Run)
    mod,        \* the registered modules, their goroutines, and Init / Destroy
    acc,        \* TCPServer.run's accept loop: tempDelay and the sleeps made
    dbq         \* the DbQueue: chanSql, closeFlag, its callers and consumer

parserVars == <<wire, sent, lastRead>>
connVars == <<tc, call, hist>>
supVars == <<sup, run, rd, wk, cl, onClose>>
procVars == <<proc, pr>>
rpcVars == <<rpc, rpcCall, goHist, executed, owner>>
asynVars == <<outcome, client, skel>>
modVars == <<mod>>
accVars == <<acc>>
dbqVars == <<dbq>>
rpcOthers == <<msgParser, wire, sent, lastRead, tc, call, hist, sup, run, rd, wk, cl, onClose,
               proc, pr, mod, acc, dbq>>

vars ==
    <<msgParser, wire, sent, lastRead, tc, call, hist, sup, run, rd, wk, cl, onClose,
      proc, pr, rpc, rpcCall, goHist, executed, owner, outcome, client, skel, mod,
      acc, dbq>>

(***************************************************************************)
(* Bytes and byte strings.                                                 *)
(***************************************************************************)
\* the byte values payloads are built from
ByteVals == {1, 255}

RECURSIVE Pow(_, _)
Pow(b, e) == IF e = 0 THEN 1 ELSE b * Pow(b, e - 1)

RECURSIVE Concat(_)
\* the parts of one message laid end to end
Concat(args) == IF args = <<>> THEN <<>> ELSE Head(args) \o Concat(Tail(args))

RECURSIVE SumLen(_)
SumLen(args) == IF args = <<>> THEN 0 ELSE Len(Head(args)) + SumLen(Tail(args))

\* every byte string of length 0..n over ByteVals
ByteStrings(n) == UNION {[1..k -> ByteVals] : k \in 0..n}

\* the argument lists WriteMsg is called with: up to two parts, at most
\* MaxLen bytes in all
ArgLists ==
    {<<>>} \cup {<<a>> : a \in ByteStrings(MaxLen)}
           \cup {<<a, b>> : a \in ByteStrings(1), b \in ByteStrings(MaxLen - 1)}

\* binary.BigEndian.PutUintN / binary.LittleEndian.PutUintN of n into w bytes
PutUint(n, w, little) ==
    [i \in 1..w |->
        IF little THEN (n \div Pow(256, i - 1)) % 256
                  ELSE (n \div Pow(256, w - i)) % 256]

RECURSIVE UintBE(_)
UintBE(b) == IF b = <<>> THEN 0 ELSE UintBE(SubSeq(b, 1, Len(b) - 1)) * 256 + b[Len(b)]

RECURSIVE UintLE(_)
UintLE(b) == IF b = <<>> THEN 0 ELSE b[1] + 256 * UintLE(Tail(b))

\* binary.BigEndian.UintN / binary.LittleEndian.UintN.  The checker's integers
\* end at 2^31 - 1: a 4-byte value with the top bit set is reported as
\* 2^31 - 1, which is above every maxMsgLen of the model as the real value is.
GetUint(b, little) ==
    LET msb == IF little THEN b[Len(b)] ELSE b[1]
    IN  IF Len(b) = 4 /\ msb >= 128 THEN 2147483647
        ELSE IF little THEN UintLE(b) ELSE UintBE(b)

(***************************************************************************)
(* MsgParser.                                                              *)
(***************************************************************************)
NewMsgParser ==
    [lenMsgLen |-> DefaultLenMsgLen, minMsgLen |-> DefaultMinMsgLen,
     maxMsgLen |-> DefaultMaxMsgLen, littleEndian |-> FALSE]

\* SetMsgLen's clamp of a uint32 x to the largest length a header of
\* lenMsgLen bytes carries; no uint32 is above math.MaxUint32, so a 4-byte
\* header clamps nothing
ClampToLen(x, lenMsgLen) ==
    CASE lenMsgLen = 1 -> IF x > MaxUint8 THEN MaxUint8 ELSE x
      [] lenMsgLen = 2 -> IF x > MaxUint16 THEN MaxUint16 ELSE x
      [] OTHER -> x

SetMsgLen(p, lenMsgLen, minMsgLen, maxMsgLen) ==
    LET l  == IF lenMsgLen \in {1, 2, 4} THEN lenMsgLen ELSE p.lenMsgLen
        mn == IF minMsgLen # 0 THEN minMsgLen ELSE p.minMsgLen
        mx == IF maxMsgLen # 0 THEN maxMsgLen ELSE p.maxMsgLen
    IN  [p EXCEPT !.lenMsgLen = l,
                  !.minMsgLen = ClampToLen(mn, l),
                  !.maxMsgLen = ClampToLen(mx, l)]

SetByteOrder(p, littleEndian) == [p EXCEPT !.littleEndian = littleEndian]

\* the length header MsgParser.Write puts in front of the payload
WriteLen(p, msgLen) ==
    CASE p.lenMsgLen = 1 -> <<msgLen % 256>>
      [] p.lenMsgLen = 2 -> PutUint(msgLen % 65536, 2, p.littleEndian)
      [] p.lenMsgLen = 4 -> PutUint(msgLen, 4, p.littleEndian)

\* MsgParser.Write without its lower length check
MsgParserWriteNoMin(p, args) ==
    LET msgLen == SumLen(args)
    IN  IF msgLen > p.maxMsgLen THEN [err |-> "message too long", msg |-> <<>>]
        ELSE [err |-> "nil", msg |-> WriteLen(p, msgLen) \o Concat(args)]

\* MsgParser.Write up to its conn.Write(msg): the error it returns and the
\* buffer it hands to the connection
MsgParserWrite(p, args) ==
    \* msgLen is a uint32; the sums of the model stay far below 2^32
    LET msgLen == SumLen(args)
    IN  IF msgLen > p.maxMsgLen THEN [err |-> "message too long", msg |-> <<>>]
        ELSE IF msgLen < p.minMsgLen THEN [err |-> "message too short", msg |-> <<>>]
        ELSE [err |-> "nil", msg |-> WriteLen(p, msgLen) \o Concat(args)]

\* the header bytes parsed in the other byte order
ParseLenFlipped(p, bufMsgLen) ==
    CASE p.lenMsgLen = 1 -> bufMsgLen[1]
      [] OTHER -> GetUint(bufMsgLen, ~p.littleEndian)

\* the length MsgParser.Read parses out of the header bytes
ParseLen(p, bufMsgLen) ==
    CASE p.lenMsgLen = 1 -> bufMsgLen[1]
      [] OTHER -> GetUint(bufMsgLen, p.littleEndian)

\* MsgParser.Read on a stream holding the bytes `stream` and then ending:
\* the error, the message data and the number of bytes consumed
MsgParserRead(p, stream) ==
    IF Len(stream) < p.lenMsgLen
    THEN [err |-> "EOF", data |-> <<>>, n |-> Len(stream)]
    ELSE LET msgLen == ParseLen(p, SubSeq(stream, 1, p.lenMsgLen))
         IN  IF msgLen > p.maxMsgLen
             THEN [err |-> "message too long", data |-> <<>>, n |-> p.lenMsgLen]
             ELSE IF msgLen < p.minMsgLen
             THEN [err |-> "message too short", data |-> <<>>, n |-> p.lenMsgLen]
             ELSE IF Len(stream) < p.lenMsgLen + msgLen
             THEN [err |-> "EOF", data |-> <<>>, n |-> Len(stream)]
             ELSE [err |-> "nil",
                   data |-> SubSeq(stream, p.lenMsgLen + 1, p.lenMsgLen + msgLen),
                   n |-> p.lenMsgLen + msgLen]

\* no traffic on the codec's own stream
NoRead == [done |-> FALSE]

IdleParser ==
    /\ wire = <<>>
    /\ sent = <<>>
    /\ lastRead = NoRead

(***************************************************************************)
(* TCPConn and WSConn: the outbound queue writeChan, the writer goroutine  *)
(* and the calls WriteMsg, Close and Destroy.                              *)
(***************************************************************************)
ConnIds == 1..MaxConns
\* the application goroutines that use a connection
Apps == {-1, -2}
\* goroutines that call into a connection: the application's, and for
\* connection c the goroutine c that runs its agent
Callers == Apps \cup ConnIds

\* the nil slice, which Close enqueues as its signal (no byte is negative)
NilBuf == <<-1>>

NoConn ==
    [made |-> FALSE, kind |-> "tcp", maxMsgLen |-> 0, cap |-> 0, writeChan |-> <<>>,
     chanClosed |-> FALSE, closeFlag |-> FALSE, netClosed |-> FALSE, mu |-> 0,
     wpc |-> "none", handed |-> <<>>, nWritten |-> 0, writeErr |-> FALSE,
     closeRet |-> FALSE, panicked |-> FALSE]

\* newTCPConn / newWSConn: the object, its queue of capacity pendingWriteNum,
\* and the writer goroutine about to receive from the queue
newConn(kind, pendingWriteNum, maxMsgLen) ==
    [NoConn EXCEPT !.made = TRUE, !.kind = kind, !.maxMsgLen = maxMsgLen,
                   !.cap = pendingWriteNum, !.wpc = "range"]

Idle == [pc |-> "idle"]

IdleConns ==
    /\ tc = [c \in ConnIds |-> NoConn]
    /\ call = [t \in Callers |-> Idle]
    /\ hist = [t \in Callers |-> <<>>]

\* doDestroy that closes the stream and the queue and leaves closeFlag alone
doDestroyKeepFlag(r) ==
    [r EXCEPT !.netClosed = TRUE,
              !.chanClosed = IF r.closeFlag THEN @ ELSE TRUE,
              !.panicked = @ \/ (~r.closeFlag /\ r.chanClosed)]

\* doDestroy: conn.Close(), and unless closeFlag is set, close(writeChan) and
\* set it; closing a channel that is already closed panics
doDestroy(r) ==
    [r EXCEPT !.netClosed = TRUE,
              !.chanClosed = IF r.closeFlag THEN @ ELSE TRUE,
              !.panicked = @ \/ (~r.closeFlag /\ r.chanClosed),
              !.closeFlag = TRUE]

\* doWrite without its test, and with the test one buffer early
QueueFullNever(r) == FALSE

QueueFullEarly(r) == Len(r.writeChan) + 1 >= r.cap

\* the test doWrite makes before it sends
QueueFull(r) == Len(r.writeChan) = r.cap

\* a call ends: its record goes to the caller's history
Return(t, rec) == hist' = [hist EXCEPT ![t] = Append(@, rec)]

\* doWrite(b), called with the mutex held by t: a full queue destroys the
\* connection, otherwise t goes on to the channel send
doWrite(t, c, b, rec) ==
    IF QueueFull(tc[c])
    THEN /\ tc' = [tc EXCEPT ![c] =
                     [doDestroy(@) EXCEPT !.mu = 0,
                                          !.closeRet = @ \/ rec.op = "Close"]]
         /\ Return(t, [rec EXCEPT !.eff = "destroyed"])
         /\ UNCHANGED call
    ELSE /\ tc' = [tc EXCEPT ![c].mu = t]
         /\ call' = [call EXCEPT ![t] = [pc |-> "send", c |-> c, b |-> b, rec |-> rec]]
         /\ UNCHANGED hist

\* writeChan <- b, the mutex held: blocks while the queue is full, panics on a
\* closed channel; Close then sets closeFlag; the deferred Unlock
ChanSend(t) ==
    /\ call[t].pc = "send"
    /\ LET c == call[t].c
           r == tc[c]
           isClose == call[t].rec.op = "Close"
       IN  /\ r.chanClosed \/ Len(r.writeChan) < r.cap
           /\ tc' = [tc EXCEPT ![c] =
                  [r EXCEPT !.writeChan = IF r.chanClosed THEN @ ELSE Append(@, call[t].b),
                            !.panicked = @ \/ r.chanClosed,
                            !.closeFlag = @ \/ isClose,
                            !.closeRet = @ \/ isClose,
                            !.mu = 0]]
           /\ Return(t, [call[t].rec EXCEPT !.eff = "enqueued"])
    /\ call' = [call EXCEPT ![t] = Idle]

NewRec(op, c, args, b) ==
    [op |-> op, c |-> c, len |-> SumLen(args), b |-> b, err |-> "nil", eff |-> "none",
     late |-> tc[c].closeRet]

\* TCPConn.Write(b) from Lock to the channel send
TCPConnWrite(t, c, b, rec) ==
    /\ tc[c].mu = 0
    /\ IF tc[c].closeFlag \/ b = NilBuf
       THEN /\ Return(t, [rec EXCEPT !.eff = "ignored"])
            /\ UNCHANGED <<tc, call>>
       ELSE doWrite(t, c, b, rec)

\* TCPConn.WriteMsg: MsgParser.Write checks the length and frames the parts,
\* then hands the buffer to TCPConn.Write
TCPConnWriteMsg(t, c, args) ==
    LET w == MsgParserWrite(msgParser, args)
        rec == NewRec("WriteMsg", c, args, w.msg)
    IN  IF w.err # "nil"
        THEN /\ Return(t, [rec EXCEPT !.err = w.err])
             /\ UNCHANGED <<tc, call>>
        ELSE TCPConnWrite(t, c, w.msg, rec)

\* WSConn.WriteMsg from Lock to the channel send
WSConnWriteMsg(t, c, args) ==
    LET msgLen == SumLen(args)
        b == IF Len(args) = 1 THEN args[1] ELSE Concat(args)
        rec == NewRec("WriteMsg", c, args, b)
    IN  /\ tc[c].mu = 0
        /\ IF tc[c].closeFlag
           THEN /\ Return(t, [rec EXCEPT !.eff = "ignored"])
                /\ UNCHANGED <<tc, call>>
           ELSE IF msgLen > tc[c].maxMsgLen
           THEN /\ Return(t, [rec EXCEPT !.err = "message too long"])
                /\ UNCHANGED <<tc, call>>
           ELSE IF msgLen < 1
           THEN /\ Return(t, [rec EXCEPT !.err = "message too short"])
                /\ UNCHANGED <<tc, call>>
           ELSE doWrite(t, c, b, rec)

WriteMsg(t, c, args) ==
    /\ call[t].pc = "idle"
    /\ tc[c].made
    /\ IF tc[c].kind = "tcp" THEN TCPConnWriteMsg(t, c, args)
                             ELSE WSConnWriteMsg(t, c, args)

\* a Close that does not look at closeFlag
CloseUnchecked(t, c) ==
    /\ call[t].pc = "idle"
    /\ tc[c].made
    /\ tc[c].mu = 0
    /\ doWrite(t, c, NilBuf, NewRec("Close", c, <<>>, NilBuf))

\* Close from Lock to the channel send of the nil signal
Close(t, c) ==
    /\ call[t].pc = "idle"
    /\ tc[c].made
    /\ tc[c].mu = 0
    /\ LET rec == NewRec("Close", c, <<>>, NilBuf)
       IN  IF tc[c].closeFlag
           THEN /\ tc' = [tc EXCEPT ![c].closeRet = TRUE]
                /\ Return(t, [rec EXCEPT !.eff = "ignored"])
                /\ UNCHANGED call
           ELSE doWrite(t, c, NilBuf, rec)

\* Destroy: Lock, doDestroy, Unlock
Destroy(t, c) ==
    /\ call[t].pc = "idle"
    /\ tc[c].made
    /\ tc[c].mu = 0
    /\ tc' = [tc EXCEPT ![c] = [doDestroy(@) EXCEPT !.closeRet = TRUE]]
    /\ Return(t, [NewRec("Destroy", c, <<>>, NilBuf) EXCEPT !.eff = "destroyed"])
    /\ UNCHANGED call

\* a queue that yields its newest buffer first
NextBufLast(q) == q[Len(q)]

\* the buffer `for b := range writeChan` yields next
NextBuf(q) == Head(q)

RestOf(q, b) ==
    IF b = Head(q) THEN Tail(q) ELSE SubSeq(q, 1, Len(q) - 1)

\* a writer that ends its loop as soon as the nil signal is in the queue
WriterRangeEager(c) ==
    /\ tc[c].wpc = "range"
    /\ LET r == tc[c]
       IN  IF \E i \in DOMAIN r.writeChan : r.writeChan[i] = NilBuf
           THEN tc' = [tc EXCEPT ![c].wpc = "close"]
           ELSE IF r.writeChan # <<>>
           THEN tc' = [tc EXCEPT ![c] =
                         [r EXCEPT !.writeChan = Tail(@), !.wpc = "write",
                                   !.handed = Append(@, Head(r.writeChan))]]
           ELSE /\ r.chanClosed
                /\ tc' = [tc EXCEPT ![c].wpc = "close"]
    /\ UNCHANGED <<call, hist>>

\* the writer goroutine receives: a buffer goes to conn.Write, the nil signal
\* or a closed and drained channel ends the loop
WriterRange(c) ==
    /\ tc[c].wpc = "range"
    /\ LET r == tc[c]
       IN  IF r.writeChan # <<>>
           THEN LET b == NextBuf(r.writeChan)
                IN  tc' = [tc EXCEPT ![c] =
                       [r EXCEPT !.writeChan = RestOf(r.writeChan, b),
                                 !.wpc = IF b = NilBuf THEN "close" ELSE "write",
                                 !.handed = IF b = NilBuf THEN @ ELSE Append(@, b)]]
           ELSE /\ r.chanClosed
                /\ tc' = [tc EXCEPT ![c].wpc = "close"]
    /\ UNCHANGED <<call, hist>>

\* conn.Write(b) returns: an error when the stream is closed or broken, which
\* ends the loop; it may also never return (the peer does not read)
WriterWrite(c) ==
    /\ tc[c].wpc = "write"
    /\ \E ok \in BOOLEAN :
          /\ ok => ~tc[c].netClosed
          /\ tc' = [tc EXCEPT ![c] =
                 [@ EXCEPT !.wpc = IF ok THEN "range" ELSE "close",
                           !.nWritten = IF ok THEN @ + 1 ELSE @,
                           !.writeErr = @ \/ ~ok]]
    /\ UNCHANGED <<call, hist>>

\* after the loop: conn.Close()
WriterClose(c) ==
    /\ tc[c].wpc = "close"
    /\ tc' = [tc EXCEPT ![c].netClosed = TRUE, ![c].wpc = "flag"]
    /\ UNCHANGED <<call, hist>>

\* after the loop: Lock, closeFlag = true, Unlock; the goroutine ends
WriterFlag(c) ==
    /\ tc[c].wpc = "flag"
    /\ tc[c].mu = 0
    /\ tc' = [tc EXCEPT ![c].closeFlag = TRUE, ![c].wpc = "done"]
    /\ UNCHANGED <<call, hist>>

(***************************************************************************)
(* The supervisor objects (their operations follow further down).          *)
(***************************************************************************)
Servers == {"tcpserver", "wsserver"}
Clients == {"tcpclient", "wsclient"}
Slots == {1, 2}

ConnKind(kind) == IF kind \in {"tcpserver", "tcpclient"} THEN "tcp" ELSE "ws"

NoSup ==
    [kind |-> "none", maxConnNum |-> 0, connNum |-> 0, autoReconnect |-> FALSE,
     lnClosed |-> FALSE, conns |-> {}, connsNil |-> TRUE, closeFlag |-> FALSE,
     wgLn |-> 0, wgConns |-> 0, n |-> 0, pendingWriteNum |-> 1, panicked |-> FALSE]

IdleSup ==
    /\ sup = NoSup
    /\ run = [pc |-> "none", cur |-> 0]
    /\ rd = [c \in ConnIds |-> "none"]
    /\ wk = [s \in Slots |-> [pc |-> "none", cur |-> 0]]
    /\ cl = "idle"
    /\ onClose = [c \in ConnIds |-> 0]

(***************************************************************************)
(* The chanrpc Server: a table of functions and the channel of calls its   *)
(* owner goroutine receives from.                                          *)
(***************************************************************************)
\* NewServer(l)
NewServer(l) == [functions |-> {}, chanCall |-> <<>>, cap |-> l, closed |-> FALSE]

NoCall == [pc |-> "idle"]

IdleRpc ==
    /\ rpc = NewServer(0)
    /\ rpcCall = [t \in Callers |-> NoCall]
    /\ goHist = [t \in Callers |-> <<>>]
    /\ executed = <<>>
    /\ owner = "select"

\* CallInfo{f, args, chanRet, cb}: f by its id, the caller, the return
\* channel ("nil", the caller's chanSyncRet or the Client's ChanAsynRet)
CallInfo(id, args, t, chanRet, cb) ==
    [id |-> id, args |-> args, from |-> t, chanRet |-> chanRet, cb |-> cb]

\* RetInfo{ret, err, cb}
NoRet == -1

RetInfo(ret, err, cb) == [ret |-> ret, err |-> err, cb |-> cb]

\* NewClient(l)
NewClient(l) == [chanAsynRet |-> <<>>, cap |-> l, pendingAsynCall |-> 0]

\* the pool of Skeleton.Go: the works whose callback has not run yet, the
\* works still running on their goroutines, the channel of the callbacks
\* of the finished works
NewGo(l) ==
    [pendingGo |-> 0, working |-> {}, chanCb |-> <<>>, cap |-> l, started |-> 0,
     ran |-> <<>>]

\* the size of the pool's callback channel
GoLen == 1

\* the Skeleton that owns the Client: at its select, the callbacks it has
\* run, the AsynCalls it has made; Skeleton.Init gives it a command server
\* and a pool
NewSkeleton ==
    [pc |-> "select", cbs |-> <<>>, issued |-> 0,
     commandServer |-> NewServer(0), g |-> NewGo(GoLen)]

IdleAsyn ==
    /\ outcome = <<>>
    /\ client = NewClient(0)
    /\ skel = NewSkeleton

\* the registered functions: the one under PanicId panics, the others are
\* Work, which returns its argument plus one
PanicId == 3

Work(args) == args[1] + 1

\* Server.ret(ci, ri): nothing without a return channel; else ri, with the
\* call's callback, is sent on it (waiting for room)
Ret(ci, ret, err) ==
    CASE ci.chanRet = "asyn" ->
             /\ Len(client.chanAsynRet) < client.cap
             /\ client' = [client EXCEPT
                              !.chanAsynRet = Append(@, RetInfo(ret, err, ci.cb))]
             /\ UNCHANGED rpcCall
      [] ci.chanRet = "sync" ->
             /\ rpcCall[ci.from].chanSyncRet = <<>>
             /\ rpcCall' = [rpcCall EXCEPT
                               ![ci.from].chanSyncRet = <<RetInfo(ret, err, ci.cb)>>]
             /\ UNCHANGED client
      [] OTHER -> UNCHANGED <<client, rpcCall>>

\* a call ends: its record goes to the caller's history
GoReturn(t, rec) == goHist' = [goHist EXCEPT ![t] = Append(@, rec)]

\* Server.Go(id, args) up to its channel send: without a function under id
\* it returns at once
Go(t, id, args) ==
    /\ rpcCall[t].pc = "idle"
    /\ IF id \notin rpc.functions
       THEN /\ GoReturn(t, [id |-> id, args |-> args, eff |-> "nofunc"])
            /\ UNCHANGED rpcCall
       ELSE /\ rpcCall' = [rpcCall EXCEPT ![t] =
                             [pc |-> "send", ci |-> CallInfo(id, args, t, "nil", 0)]]
            /\ UNCHANGED goHist
    /\ UNCHANGED <<rpc, executed, owner>>

\* a Go without its deferred recover: the panic of the send leaves Go
GoSendUnrecovered(t) ==
    /\ rpcCall[t].pc = "send"
    /\ IF rpc.closed
       THEN /\ GoReturn(t, [id |-> rpcCall[t].ci.id, args |-> rpcCall[t].ci.args,
                            eff |-> "panic"])
            /\ UNCHANGED rpc
       ELSE /\ Len(rpc.chanCall) < rpc.cap
            /\ rpc' = [rpc EXCEPT !.chanCall = Append(@, rpcCall[t].ci)]
            /\ GoReturn(t, [id |-> rpcCall[t].ci.id, args |-> rpcCall[t].ci.args,
                            eff |-> "sent"])
    /\ rpcCall' = [rpcCall EXCEPT ![t] = NoCall]
    /\ UNCHANGED <<executed, owner>>

\* Server.Go: s.ChanCall <- ci into the buffer (it waits while there is no
\* room); on a closed channel the send panics, Go recovers and returns
GoSend(t) ==
    /\ rpcCall[t].pc = "send"
    /\ IF rpc.closed
       THEN /\ GoReturn(t, [id |-> rpcCall[t].ci.id, args |-> rpcCall[t].ci.args,
                            eff |-> "closed"])
            /\ UNCHANGED rpc
       ELSE /\ Len(rpc.chanCall) < rpc.cap
            /\ rpc' = [rpc EXCEPT !.chanCall = Append(@, rpcCall[t].ci)]
            /\ GoReturn(t, [id |-> rpcCall[t].ci.id, args |-> rpcCall[t].ci.args,
                            eff |-> "sent"])
    /\ rpcCall' = [rpcCall EXCEPT ![t] = NoCall]
    /\ UNCHANGED <<executed, owner>>

\* a receive that takes the newest call of the buffer
ExecBufferedLast ==
    /\ owner = "select"
    /\ rpc.chanCall # <<>>
    /\ executed' = Append(executed, rpc.chanCall[Len(rpc.chanCall)])
    /\ rpc' = [rpc EXCEPT !.chanCall = SubSeq(@, 1, Len(@) - 1)]
    /\ owner' = "exec"
    /\ UNCHANGED <<rpcCall, goHist>>

\* the owner's loop: ci := <-s.server.ChanCall from the buffer, and
\* s.server.Exec(ci) begins
ExecBuffered ==
    /\ owner = "select"
    /\ rpc.chanCall # <<>>
    /\ executed' = Append(executed, Head(rpc.chanCall))
    /\ rpc' = [rpc EXCEPT !.chanCall = Tail(@)]
    /\ owner' = "exec"
    /\ UNCHANGED <<rpcCall, goHist>>

\* the owner's loop: ci := <-s.server.ChanCall straight from a sender that
\* waits in its send (the buffer is empty), s.server.Exec(ci)
ExecHandoff(t) ==
    /\ owner = "select"
    /\ rpc.chanCall = <<>>
    /\ ~rpc.closed
    /\ rpcCall[t].pc = "send"
    /\ executed' = Append(executed, rpcCall[t].ci)
    /\ GoReturn(t, [id |-> rpcCall[t].ci.id, args |-> rpcCall[t].ci.args, eff |-> "sent"])
    /\ rpcCall' = [rpcCall EXCEPT ![t] = NoCall]
    /\ owner' = "exec"
    /\ UNCHANGED rpc

\* a panic of the function that leaves Exec ends the owner goroutine
AfterExecEscapes(out) == IF out = "panic" THEN "crashed" ELSE "select"

\* Server.exec recovers a panic of the function: Exec returns either way
\* and the owner is back at its select
AfterExec(out) == "select"

\* the function of the call being executed ends, by returning or by a
\* panic that exec recovers; exec passes the result or the error to ret
ExecReturns ==
    /\ owner = "exec"
    /\ LET ci == executed[Len(executed)]
           out == IF ci.id = PanicId THEN "panic" ELSE "ok"
       IN  /\ outcome' = Append(outcome, out)
           /\ owner' = AfterExec(out)
           /\ IF ci.chanRet = "nil"
              THEN UNCHANGED <<client, rpcCall>>
              ELSE IF out = "ok" THEN Ret(ci, Work(ci.args), "nil")
                                 ELSE Ret(ci, NoRet, "panic")
    /\ UNCHANGED <<rpc, goHist, executed, skel>>

\* a Close that throws the buffered calls away
DrainedSilently(q, c0, rc) == [client |-> c0, rpcCall |-> rc]

\* the range loop of Server.Close: every buffered call gets the error on
\* its return channel
RECURSIVE Drained(_, _, _)
Drained(q, c0, rc) ==
    IF q = <<>>
    THEN [client |-> c0, rpcCall |-> rc]
    ELSE LET ci == Head(q)
             ri == RetInfo(NoRet, "server closed", ci.cb)
         IN  Drained(Tail(q),
                     IF ci.chanRet = "asyn"
                     THEN [c0 EXCEPT !.chanAsynRet = Append(@, ri)] ELSE c0,
                     IF ci.chanRet = "sync"
                     THEN [rc EXCEPT ![ci.from].chanSyncRet = <<ri>>] ELSE rc)

\* the owner's loop on closeSig: shutdown calls s.server.Close(), which
\* closes ChanCall and drains it; Run returns
ServerClose ==
    /\ owner = "select"
    /\ ~rpc.closed
    /\ rpc' = [rpc EXCEPT !.closed = TRUE, !.chanCall = <<>>]
    /\ owner' = "returned"
    /\ LET d == Drained(rpc.chanCall, client, rpcCall)
       IN  /\ Len(d.client.chanAsynRet) <= client.cap
           /\ client' = d.client
           /\ rpcCall' = d.rpcCall
    /\ UNCHANGED <<goHist, executed, outcome, skel>>

(***************************************************************************)
(* The protobuf Processor.  msgInfo is kept as its length and the entries  *)
(* that are not plain: entry i of a registry whose first types were the    *)
(* filler types Filler(0), Filler(1), ... is [msgType |-> Filler(i)] with  *)
(* no handler unless ent says otherwise.                                   *)
(***************************************************************************)
\* the message types the application registers
AppTypes == 1..MaxTypes

\* the type that was registered i-th (from 0) in a registry filled beforehand
Filler(i) == MaxTypes + 1 + i

\* the position a filler type was registered at
FillerPos(t) == t - MaxTypes - 1

\* a registry one type short of holding MaxUint16 types
NearFull == MaxUint16 - 1

\* the conversion uint16(n) of a non-negative int
Uint16(n) == n % (MaxUint16 + 1)

\* msgID has no entry for the type
NoID == -1

\* &MsgInfo{msgType: msgType}
NewMsgInfo(t) ==
    [msgType |-> t, msgRouter |-> FALSE, msgHandler |-> FALSE, msgRawHandler |-> FALSE]

\* NewProcessor() followed by Register of n filler types
Registered(n) ==
    [littleEndian |-> FALSE, len |-> n, fillers |-> n, ent |-> <<>>,
     msgID |-> [t \in AppTypes |-> NoID], regs |-> <<>>, sets |-> 0]

NewProcessor == Registered(0)

\* p.msgInfo[i]
InfoAt(p, i) == IF i \in DOMAIN p.ent THEN p.ent[i] ELSE NewMsgInfo(Filler(i))

\* p.msgID[msgType], NoID when the map has no such key
MsgIDOf(p, t) ==
    IF t \in AppTypes THEN p.msgID[t]
    ELSE IF FillerPos(t) < p.fillers THEN FillerPos(t) ELSE NoID

\* p.msgInfo[i] = v
WithInfo(p, i, v) == [p EXCEPT !.ent = (i :> v) @@ @]

ProcessorSetByteOrder(p, littleEndian) == [p EXCEPT !.littleEndian = littleEndian]

\* Processor.Register(msg) for a message of type t: logs.Error reports a type
\* that is already registered, and a registry that holds MaxUint16 types,
\* and returns; the entry is appended and the id assigned all the same
ProcessorRegister(p, t) ==
    LET id == Uint16((p.len + 1) - 1)
    IN  [WithInfo(p, p.len, NewMsgInfo(t)) EXCEPT
            !.len = @ + 1,
            !.msgID[t] = id,
            !.regs = Append(@, [type |-> t, id |-> id])]

\* Processor.SetHandler(msg, h) for a registered type t
ProcessorSetHandler(p, t) ==
    LET id == MsgIDOf(p, t)
    IN  [WithInfo(p, id, [InfoAt(p, id) EXCEPT !.msgHandler = TRUE]) EXCEPT !.sets = @ + 1]

\* Processor.SetRouter(msg, server) for a registered type t
ProcessorSetRouter(p, t) ==
    LET id == MsgIDOf(p, t)
    IN  [WithInfo(p, id, [InfoAt(p, id) EXCEPT !.msgRouter = TRUE]) EXCEPT !.sets = @ + 1]

\* Processor.SetRawHandler(id, h) for an id below uint16(len(p.msgInfo))
ProcessorSetRawHandler(p, id) ==
    [WithInfo(p, id, [InfoAt(p, id) EXCEPT !.msgRawHandler = TRUE]) EXCEPT !.sets = @ + 1]

\* the values a message's one field takes (0 is the field's default)
FieldVals == {0, 1}

\* a protobuf message of type t, a MsgRaw, and no message
Msg(t, v) == [raw |-> FALSE, type |-> t, val |-> v, id |-> 0, data |-> <<>>]

MsgRaw(id, data) == [raw |-> TRUE, type |-> 0, val |-> 0, id |-> id, data |-> data]

NilMsg == Msg(0, 0)

\* proto.Marshal of a message with one varint field, number 1: a field at
\* its default is left out, otherwise the tag byte 8 and the value
protoMarshal(msg) == IF msg.val = 0 THEN <<>> ELSE <<8, msg.val>>

\* proto.Unmarshal(b, msg) into a fresh message of type t
protoUnmarshal(b, t) ==
    IF b = <<>> THEN [err |-> "nil", msg |-> Msg(t, 0)]
    ELSE IF Len(b) = 2 /\ b[1] = 8 THEN [err |-> "nil", msg |-> Msg(t, b[2])]
    ELSE [err |-> "proto", msg |-> NilMsg]

\* Processor.Marshal(msg)
ProcessorMarshal(p, msg) ==
    LET id == MsgIDOf(p, msg.type)
    IN  IF id = NoID THEN [err |-> "not registered", parts |-> <<>>]
        ELSE [err |-> "nil", parts |-> <<PutUint(id, 2, p.littleEndian), protoMarshal(msg)>>]

\* an Unmarshal that decodes where a raw handler is set
ProcessorUnmarshalDecodes(p, data) ==
    IF Len(data) < 2 THEN [err |-> "too short", msg |-> NilMsg]
    ELSE LET id == GetUint(SubSeq(data, 1, 2), p.littleEndian)
         IN  IF id >= Uint16(p.len) THEN [err |-> "not registered", msg |-> NilMsg]
             ELSE protoUnmarshal(SubSeq(data, 3, Len(data)), InfoAt(p, id).msgType)

\* Processor.Unmarshal(data)
ProcessorUnmarshal(p, data) ==
    IF Len(data) < 2 THEN [err |-> "too short", msg |-> NilMsg]
    ELSE LET id == GetUint(SubSeq(data, 1, 2), p.littleEndian)
         IN  IF id >= Uint16(p.len) THEN [err |-> "not registered", msg |-> NilMsg]
             ELSE IF InfoAt(p, id).msgRawHandler
                  THEN [err |-> "nil", msg |-> MsgRaw(id, SubSeq(data, 3, Len(data)))]
                  ELSE protoUnmarshal(SubSeq(data, 3, Len(data)), InfoAt(p, id).msgType)

\* one call Route makes: of the raw handler with [id, data, userData], of
\* the handler with [msg, userData]
RawCall(msg, userData) ==
    [to |-> "raw", id |-> msg.id, data |-> msg.data, msg |-> NilMsg, userData |-> userData]

HandlerCall(msg, userData) ==
    [to |-> "handler", id |-> 0, data |-> <<>>, msg |-> msg, userData |-> userData]

\* a Route that returns after the handler and leaves the router out
ProcessorRouteHandlerOnly(p, msg, userData) ==
    [err |-> IF ~msg.raw /\ MsgIDOf(p, msg.type) = NoID THEN "not registered" ELSE "nil",
     calls |-> IF ~msg.raw /\ MsgIDOf(p, msg.type) # NoID
                  /\ InfoAt(p, MsgIDOf(p, msg.type)).msgHandler
               THEN <<HandlerCall(msg, userData)>> ELSE <<>>,
     router |-> FALSE]

\* Processor.Route(msg, userData) up to its call of the router: the error it
\* returns, the handler calls it makes, and whether it goes on to
\* i.msgRouter.Go(msgType, msg, userData)
ProcessorRoute(p, msg, userData) ==
    IF msg.raw
    THEN IF msg.id >= Uint16(p.len)
         THEN [err |-> "not registered", calls |-> <<>>, router |-> FALSE]
         ELSE [err |-> "nil",
               calls |-> IF InfoAt(p, msg.id).msgRawHandler
                         THEN <<RawCall(msg, userData)>> ELSE <<>>,
               router |-> FALSE]
    ELSE LET id == MsgIDOf(p, msg.type)
         IN  IF id = NoID
             THEN [err |-> "not registered", calls |-> <<>>, router |-> FALSE]
             ELSE [err |-> "nil",
                   calls |-> IF InfoAt(p, id).msgHandler
                             THEN <<HandlerCall(msg, userData)>> ELSE <<>>,
                   router |-> InfoAt(p, id).msgRouter]

\* no frame has gone through the Processor
NoFrame ==
    [op |-> "none", data |-> <<>>, in |-> NilMsg, err |-> "nil", out |-> NilMsg,
     rerr |-> "nil", calls |-> <<>>, router |-> FALSE, by |-> 0, n |-> 0]

IdleProc ==
    /\ proc = NewProcessor
    /\ pr = NoFrame

(***************************************************************************)
(* The modules: mods, filled by Register; per module its goroutine (run),  *)
(* closeSig (capacity 1) and wg; Init and Destroy are called, in that      *)
(* order, by one goroutine.  trace lists what happened, oldest first.      *)
(***************************************************************************)
ModIds == 1..MaxMods

\* n calls of Register
Registers(n) ==
    [n |-> n,
     pc |-> "idle", i |-> 0,
     st |-> [m \in ModIds |-> "none"],
     closeSig |-> [m \in ModIds |-> 0],
     wg |-> [m \in ModIds |-> 0],
     trace |-> <<>>]

IdleMod == mod = Registers(0)

Event(ev, m) == [mod EXCEPT !.trace = Append(@, <<ev, m>>)]

\* Init is called: the loop over mods begins
ModInit ==
    /\ mod.pc = "idle"
    /\ mod' = [mod EXCEPT !.pc = IF mod.n = 0 THEN "up" ELSE "init", !.i = 1]

\* Init: m.mi.OnInit() is called
ModOnInit ==
    /\ mod.pc = "init"
    /\ mod' = [Event("OnInit", mod.i) EXCEPT !.pc = "inOnInit"]

\* Init: OnInit returns; m.wg.Add(1); go run(m); on to the next module
ModOnInitReturns ==
    /\ mod.pc = "inOnInit"
    /\ mod' = [Event("OnInitReturns", mod.i) EXCEPT
                  !.wg[mod.i] = @ + 1,
                  !.st[mod.i] = "spawned",
                  !.i = @ + 1,
                  !.pc = IF mod.i = mod.n THEN "up" ELSE "init"]

\* run(m): m.mi.Run(m.closeSig) begins
ModRun(m) ==
    /\ mod.st[m] = "spawned"
    /\ mod' = [Event("Run", m) EXCEPT !.st[m] = "run"]

\* Run receives from closeSig and returns
ModRunReturns(m) ==
    /\ mod.st[m] = "run"
    /\ mod.closeSig[m] > 0
    /\ mod' = [Event("RunReturns", m) EXCEPT !.st[m] = "returned", !.closeSig[m] = @ - 1]

\* run(m): the deferred m.wg.Done()
ModDone(m) ==
    /\ mod.st[m] = "returned"
    /\ mod' = [mod EXCEPT !.st[m] = "done", !.wg[m] = @ - 1]

\* Destroy is called, after Init has returned: i := len(mods) - 1
ModDestroy ==
    /\ mod.pc = "up"
    /\ mod' = [mod EXCEPT !.pc = IF mod.n = 0 THEN "destroyed" ELSE "signal", !.i = mod.n]

\* Destroy: m.closeSig <- true
ModSignal ==
    /\ mod.pc = "signal"
    /\ mod.closeSig[mod.i] < 1
    /\ mod' = [Event("Signal", mod.i) EXCEPT !.closeSig[mod.i] = @ + 1, !.pc = "wait"]

\* a Wait that returns at once
RunIsOverAnyway(m) == TRUE

\* m.wg.Wait() can return
RunIsOver(m) == mod.wg[m] = 0

\* Destroy: m.wg.Wait() returns and safeDestroy calls m.mi.OnDestroy()
ModOnDestroy ==
    /\ mod.pc = "wait"
    /\ RunIsOver(mod.i)
    /\ mod' = [Event("OnDestroy", mod.i) EXCEPT !.pc = "inOnDestroy"]

\* safeDestroy: OnDestroy returns, or panics and the panic is recovered
\* and logged; Destroy goes on to the module before
ModOnDestroyEnds ==
    /\ mod.pc = "inOnDestroy"
    /\ \E ev \in {"OnDestroyReturns", "OnDestroyPanics"} :
           mod' = [Event(ev, mod.i) EXCEPT
                      !.i = @ - 1,
                      !.pc = IF mod.i = 1 THEN "destroyed" ELSE "signal"]

(***************************************************************************)
(* The accept loop of TCPServer.run: tempDelay, in milliseconds, and what  *)
(* the loop has done so far (k: the timeouts since the last connection;    *)
(* slept: every sleep made, oldest first).                                 *)
(***************************************************************************)
\* 5 * time.Millisecond
FirstDelay == 5

\* 1 * time.Second
MaxDelay == 1000

\* run(): var tempDelay time.Duration, before the first Accept
NewAcceptLoop ==
    [pc |-> "accept", tempDelay |-> 0, k |-> 0, slept |-> <<>>, accepted |-> 0,
     last |-> "none"]

IdleAcc == acc = NewAcceptLoop

\* the delay that doubles without the cap
NextDelayUncapped(d) == IF d = 0 THEN FirstDelay ELSE d * 2

\* run(): the new tempDelay on a timeout
NextDelay(d) ==
    LET n == IF d = 0 THEN FirstDelay ELSE d * 2
    IN  IF n > MaxDelay THEN MaxDelay ELSE n

\* Accept fails with a *net.OpError whose Timeout() is true: tempDelay is
\* set and slept
AcceptTimeout ==
    /\ acc.pc = "accept"
    /\ Len(acc.slept) < MaxErrs
    /\ acc' = [acc EXCEPT !.tempDelay = NextDelay(@),
                          !.k = @ + 1,
                          !.slept = Append(@, NextDelay(acc.tempDelay)),
                          !.last = "timeout",
                          !.pc = "sleep"]

\* time.Sleep(tempDelay) returns; continue
AcceptSleepOver ==
    /\ acc.pc = "sleep"
    /\ acc' = [acc EXCEPT !.pc = "accept"]

\* Accept returns a connection: tempDelay = 0, and the loop goes round (the
\* connection is refused or served)
AcceptOk ==
    /\ acc.pc = "accept"
    /\ acc.accepted < MaxAccepts
    /\ acc' = [acc EXCEPT !.tempDelay = 0, !.k = 0, !.accepted = @ + 1, !.last = "ok"]

\* Accept fails with any other error: run() returns
AcceptError ==
    /\ acc.pc = "accept"
    /\ acc' = [acc EXCEPT !.pc = "done", !.last = "error"]

(***************************************************************************)
(* The DbQueue of memory type.                                             *)
(***************************************************************************)
\* NewDbQueue(DbQueueTypeMemory, _, _, queueLimitCount)
NewDbQueue(queueLimitCount) ==
    [chanSql |-> <<>>, cap |-> queueLimitCount, closeFlag |-> FALSE, wg |-> 0,
     locked |-> FALSE, task |-> "none", strSql |-> 0, execd |-> <<>>,
     put |-> [t \in Apps |-> [pc |-> "idle", sql |-> 0, n |-> 0]],
     accepted |-> {}, refused |-> {}, destroy |-> "idle"]

IdleDbq == dbq = NewDbQueue(0)

\* the empty string, which Destroy sends as its signal
EmptySql == 0

\* the puts each goroutine makes
MaxPuts == 1

\* the SQL string of the n-th put of goroutine t
SqlOf(t, n) == (-t - 1) * MaxPuts + n

\* go startMemoryQueueTask(): wg.Add(1), and the task is at its range
StartQueueTask(q) == [q EXCEPT !.wg = @ + 1, !.task = "range"]

\* PutToQueue(strSql) up to its channel send: closeFlag is read without the
\* lock, so that a read made while Destroy is running may see either value
PutToQueue(t) ==
    /\ dbq.put[t].pc = "idle"
    /\ dbq.put[t].n < MaxPuts
    /\ LET sql == SqlOf(t, dbq.put[t].n + 1)
       IN  \E seen \in {dbq.closeFlag, dbq.closeFlag /\ dbq.destroy = "returned"} :
              IF seen
              THEN dbq' = [dbq EXCEPT !.put[t].n = @ + 1, !.refused = @ \cup {sql}]
              ELSE dbq' = [dbq EXCEPT !.put[t] = [pc |-> "send", sql |-> sql, n |-> @.n + 1]]

\* dq.chanSql <- strSql (waiting for room), PutCount += 1, PutToQueue returns
PutSend(t) ==
    /\ dbq.put[t].pc = "send"
    /\ Len(dbq.chanSql) < dbq.cap
    /\ dbq' = [dbq EXCEPT !.chanSql = Append(@, dbq.put[t].sql), !.put[t].pc = "idle",
                           !.accepted = @ \cup {dbq.put[t].sql}]

\* for strSql := range dq.chanSql: the task receives the next string
TaskRange ==
    /\ dbq.task = "range"
    /\ dbq.chanSql # <<>>
    /\ dbq' = [dbq EXCEPT !.chanSql = Tail(@), !.strSql = Head(dbq.chanSql), !.task = "test"]

\* if strSql == "" && len(dq.chanSql) == 0
TaskEnds == dbq.strSql = EmptySql /\ Len(dbq.chanSql) = 0

\* the body of the loop: return at the signal (the deferred wg.Done runs),
\* else Exec(strSql) and ExecCount += 1
TaskBody ==
    /\ dbq.task = "test"
    /\ IF TaskEnds
       THEN dbq' = [dbq EXCEPT !.task = "done", !.wg = @ - 1]
       ELSE dbq' = [dbq EXCEPT !.execd = Append(@, dbq.strSql), !.task = "range"]

\* Destroy: Lock, and with closeFlag unset, closeFlag = true
DestroyBegins ==
    /\ dbq.destroy = "idle"
    /\ ~dbq.locked
    /\ IF dbq.closeFlag
       THEN dbq' = [dbq EXCEPT !.destroy = "returned"]
       ELSE dbq' = [dbq EXCEPT !.locked = TRUE, !.closeFlag = TRUE, !.destroy = "send"]

\* Destroy: dq.chanSql <- "" (waiting for room)
DestroySend ==
    /\ dbq.destroy = "send"
    /\ Len(dbq.chanSql) < dbq.cap
    /\ dbq' = [dbq EXCEPT !.chanSql = Append(@, EmptySql), !.destroy = "wait"]

\* Destroy: dq.wg.Wait() returns, the timer is stopped, Unlock
DestroyReturns ==
    /\ dbq.destroy = "wait"
    /\ dbq.wg = 0
    /\ dbq' = [dbq EXCEPT !.locked = FALSE, !.destroy = "returned"]

(***************************************************************************)
(* One connection used by two application goroutines.                      *)
(***************************************************************************)
\* the first byte of the payload of the k-th call of goroutine t
Tag(t, k) == (-t) * 10 + k

\* what goroutine t may pass to its k-th WriteMsg: nothing, one part, two
\* parts, and one part longer than the largest message
ArgsOf(t, k) ==
    {<<>>, << <<Tag(t, k)>> >>, << <<Tag(t, k)>>, <<255>> >>,
     << [i \in 1..(MaxLen + 1) |-> IF i = 1 THEN Tag(t, k) ELSE 255] >>}

\* the parser a server builds in init() from LenMsgLen 2, MaxMsgLen MaxLen
ConnParser == SetMsgLen(NewMsgParser, 2, 0, MaxLen)

InitConn ==
    /\ msgParser = ConnParser
    /\ IdleParser
    /\ IdleProc
    /\ IdleMod
    /\ IdleAcc
    /\ IdleDbq
    /\ IdleRpc
    /\ IdleAsyn
    /\ IdleSup
    /\ call = [t \in Callers |-> Idle]
    /\ hist = [t \in Callers |-> <<>>]
    /\ \E kind \in {"tcp", "ws"}, n \in 1..MaxPendingWriteNum :
          tc = [c \in ConnIds |-> IF c = 1 THEN newConn(kind, n, MaxLen) ELSE NoConn]

connRest == <<msgParser, parserVars, supVars, procVars, rpcVars, asynVars, modVars, accVars, dbqVars>>

\* goroutine -1 makes any call with any arguments
AppWriteMsg ==
    /\ Len(hist[-1]) < MaxCalls
    /\ \E args \in ArgsOf(-1, Len(hist[-1]) + 1) : WriteMsg(-1, 1, args)
    /\ UNCHANGED connRest

AppClose == Len(hist[-1]) < MaxCalls /\ Close(-1, 1) /\ UNCHANGED connRest

AppDestroy == Len(hist[-1]) < MaxCalls /\ Destroy(-1, 1) /\ UNCHANGED connRest

\* goroutine -2 writes one-part messages to the same connection
OtherWriteMsg ==
    /\ Len(hist[-2]) < MaxCalls - 1
    /\ WriteMsg(-2, 1, << <<Tag(-2, Len(hist[-2]) + 1)>> >>)
    /\ UNCHANGED connRest

AppChanSend == \E t \in Apps : ChanSend(t) /\ UNCHANGED connRest

Writer(c) == WriterRange(c) \/ WriterWrite(c) \/ WriterClose(c) \/ WriterFlag(c)

ConnWriter == Writer(1) /\ UNCHANGED connRest

NextConn ==
    AppWriteMsg \/ AppClose \/ AppDestroy \/ OtherWriteMsg \/ AppChanSend \/ ConnWriter

SpecConn == InitConn /\ [][NextConn]_vars

(***************************************************************************)
(* The supervisors: TCPServer and WSServer accept connections up to        *)
(* MaxConnNum, TCPClient and WSClient dial ConnNum of them; each serves a  *)
(* connection with an agent and runs the agent's OnClose at the end.       *)
(***************************************************************************)
\* the admission test with > for >=
AtLimitOver(s) == Cardinality(s.conns) > s.maxConnNum

\* len(server.conns) >= server.MaxConnNum
AtLimit(s) == Cardinality(s.conns) >= s.maxConnNum

\* delete that removes nothing
DeleteConnNone(S, c) == S

\* delete(server.conns, conn)
DeleteConn(S, c) == S \ {c}

\* a Wait that never waits
WaitNever(n) == TRUE

\* sync.WaitGroup.Wait returns once the counter is zero
Wait(n) == n = 0

\* a refusal that makes the connection object and starts its writer
RefuseConnServed(r) == [newConn("tcp", 1, 0) EXCEPT !.netClosed = TRUE]

\* the refusal of a connection at the limit: conn.Close() on the raw
\* connection, and nothing else
RefuseConn(r) == [r EXCEPT !.netClosed = TRUE]

\* the connection the next Accept or Dial yields
NewId == sup.n + 1

\* run(): server.wgLn.Add(1)
RunStart ==
    /\ sup.kind = "tcpserver"
    /\ run.pc = "start"
    /\ sup' = [sup EXCEPT !.wgLn = @ + 1]
    /\ run' = [run EXCEPT !.pc = "accept"]
    /\ UNCHANGED <<rd, wk, cl, onClose, connVars>>

\* run(): ln.Accept() returns a connection
Accept ==
    /\ sup.kind = "tcpserver"
    /\ run.pc = "accept"
    /\ ~sup.lnClosed
    /\ NewId \in ConnIds
    /\ sup' = [sup EXCEPT !.n = NewId]
    /\ run' = [pc |-> "admit", cur |-> NewId]
    /\ UNCHANGED <<rd, wk, cl, onClose, connVars>>

\* run(): ln.Accept() fails for good (the listener is closed, or an error
\* that is no timeout); the deferred wgLn.Done()
AcceptFails ==
    /\ sup.kind = "tcpserver"
    /\ run.pc = "accept"
    /\ sup' = [sup EXCEPT !.wgLn = @ - 1]
    /\ run' = [run EXCEPT !.pc = "done"]
    /\ UNCHANGED <<rd, wk, cl, onClose, connVars>>

\* run(): under mutexConns, refuse the connection at the limit (conn.Close())
\* or put it in the set; writing to the nil map panics
Admit ==
    /\ sup.kind = "tcpserver"
    /\ run.pc = "admit"
    /\ LET c == run.cur
       IN  IF AtLimit(sup)
           THEN /\ tc' = [tc EXCEPT ![c] = RefuseConn(@)]
                /\ rd' = [rd EXCEPT ![c] = "refused"]
                /\ run' = [pc |-> "accept", cur |-> 0]
                /\ UNCHANGED sup
           ELSE /\ sup' = [sup EXCEPT !.conns = IF sup.connsNil THEN @ ELSE @ \cup {c},
                                      !.panicked = @ \/ sup.connsNil]
                /\ run' = [run EXCEPT !.pc = "spawn"]
                /\ UNCHANGED <<tc, rd>>
    /\ UNCHANGED <<wk, cl, onClose, call, hist>>

\* run(): wgConns.Add(1), newTCPConn, NewAgent, and the goroutine that runs
\* the agent
Spawn ==
    /\ sup.kind = "tcpserver"
    /\ run.pc = "spawn"
    /\ LET c == run.cur
       IN  /\ tc' = [tc EXCEPT ![c] =
                  [newConn("tcp", sup.pendingWriteNum, 0) EXCEPT !.netClosed = tc[c].netClosed]]
           /\ rd' = [rd EXCEPT ![c] = "run"]
    /\ sup' = [sup EXCEPT !.wgConns = @ + 1]
    /\ run' = [pc |-> "accept", cur |-> 0]
    /\ UNCHANGED <<wk, cl, onClose, call, hist>>

\* httpServer.Serve: a request arrives and its handler goroutine starts; once
\* the listener is closed Serve returns
Serve ==
    /\ sup.kind = "wsserver"
    /\ run.pc = "accept"
    /\ IF sup.lnClosed
       THEN /\ run' = [run EXCEPT !.pc = "done"]
            /\ UNCHANGED <<sup, rd>>
       ELSE /\ NewId \in ConnIds
            /\ sup' = [sup EXCEPT !.n = NewId]
            /\ rd' = [rd EXCEPT ![NewId] = "upgrade"]
            /\ UNCHANGED run
    /\ UNCHANGED <<wk, cl, onClose, connVars>>

\* ServeHTTP: the method test and Upgrade; on success handler.wg.Add(1)
Upgrade(c) ==
    /\ rd[c] = "upgrade"
    /\ \E ok \in BOOLEAN :
          IF ok THEN /\ sup' = [sup EXCEPT !.wgConns = @ + 1]
                     /\ rd' = [rd EXCEPT ![c] = "admit"]
                ELSE /\ rd' = [rd EXCEPT ![c] = "refused"]
                     /\ UNCHANGED sup
    /\ UNCHANGED <<run, wk, cl, onClose, connVars>>

\* ServeHTTP: under mutexConns, refuse the connection when the set is nil or
\* at the limit (conn.Close(), the deferred wg.Done()), or put it in the set,
\* make the WSConn and the agent and run it
WSAdmit(c) ==
    /\ rd[c] = "admit"
    /\ IF sup.connsNil \/ AtLimit(sup)
       THEN /\ tc' = [tc EXCEPT ![c] = RefuseConn(@)]
            /\ sup' = [sup EXCEPT !.wgConns = @ - 1]
            /\ rd' = [rd EXCEPT ![c] = "refused"]
       ELSE /\ sup' = [sup EXCEPT !.conns = @ \cup {c}]
            /\ tc' = [tc EXCEPT ![c] = newConn("ws", sup.pendingWriteNum, MaxLen)]
            /\ rd' = [rd EXCEPT ![c] = "run"]
    /\ UNCHANGED <<run, wk, cl, onClose, call, hist>>

\* agent.Run() returns: ReadMsg failed (the stream was closed by either end,
\* or a frame broke the codec's rules) or the processor refused a message
RunReturns(c) ==
    /\ rd[c] = "run"
    /\ rd' = [rd EXCEPT ![c] = "close"]
    /\ UNCHANGED <<sup, run, wk, cl, onClose, connVars>>

\* cleanup: tcpConn.Close(), up to its channel send
ConnClose(c) ==
    /\ rd[c] = "close"
    /\ Close(c, c)
    /\ rd' = [rd EXCEPT ![c] = IF call'[c].pc = "send" THEN "closing" ELSE "delete"]
    /\ UNCHANGED <<sup, run, wk, cl, onClose>>

\* cleanup: tcpConn.Close(), its channel send and return
ConnCloseSend(c) ==
    /\ rd[c] = "closing"
    /\ ChanSend(c)
    /\ rd' = [rd EXCEPT ![c] = "delete"]
    /\ UNCHANGED <<sup, run, wk, cl, onClose>>

\* cleanup: under mutexConns, delete(conns, conn) (nothing, on the nil map)
ConnDelete(c) ==
    /\ rd[c] = "delete"
    /\ sup' = [sup EXCEPT !.conns = DeleteConn(@, c)]
    /\ rd' = [rd EXCEPT ![c] = "onclose"]
    /\ UNCHANGED <<run, wk, cl, onClose, connVars>>

\* cleanup: agent.OnClose() is called
OnCloseStart(c) ==
    /\ rd[c] = "onclose"
    /\ onClose' = [onClose EXCEPT ![c] = @ + 1]
    /\ rd' = [rd EXCEPT ![c] = "inOnClose"]
    /\ UNCHANGED <<sup, run, wk, cl, connVars>>

\* agent.OnClose() returns; a server's goroutine ends with wgConns.Done() (the
\* deferred handler.wg.Done())
OnCloseReturns(c) ==
    /\ rd[c] = "inOnClose"
    /\ rd' = [rd EXCEPT ![c] = "done"]
    /\ sup' = [sup EXCEPT !.wgConns = IF sup.kind \in Servers THEN @ - 1 ELSE @]
    /\ UNCHANGED <<run, wk, cl, onClose, connVars>>

\* TCPServer.Close: ln.Close()
CloseListener ==
    /\ sup.kind = "tcpserver"
    /\ cl = "idle"
    /\ sup' = [sup EXCEPT !.lnClosed = TRUE]
    /\ cl' = "waitLn"
    /\ UNCHANGED <<run, rd, wk, onClose, connVars>>

\* TCPServer.Close: wgLn.Wait()
WaitListener ==
    /\ cl = "waitLn"
    /\ Wait(sup.wgLn)
    /\ cl' = "closeConns"
    /\ UNCHANGED <<sup, run, rd, wk, onClose, connVars>>

\* Close: under the mutex, conn.Close() on every connection of the set and
\* conns = nil.  WSServer.Close closes the listener first, a client's Close
\* sets closeFlag first.
CloseConns ==
    /\ \/ sup.kind = "tcpserver" /\ cl = "closeConns"
       \/ sup.kind \in {"wsserver"} \cup Clients /\ cl = "idle"
    /\ sup' = [sup EXCEPT !.lnClosed = @ \/ sup.kind = "wsserver",
                          !.closeFlag = @ \/ sup.kind \in Clients,
                          !.conns = {}, !.connsNil = TRUE]
    /\ tc' = [c \in ConnIds |->
                IF c \in sup.conns THEN [tc[c] EXCEPT !.netClosed = TRUE] ELSE tc[c]]
    /\ cl' = "waitConns"
    /\ UNCHANGED <<run, rd, wk, onClose, call, hist>>

\* Close: wgConns.Wait() (handler.wg.Wait(), client.wg.Wait()), and return
WaitConns ==
    /\ cl = "waitConns"
    /\ Wait(sup.wgConns)
    /\ cl' = "returned"
    /\ UNCHANGED <<sup, run, rd, wk, onClose, connVars>>

\* a client that never sees its closeFlag set
StoppedNever(s) == FALSE

\* client.closeFlag, as dial reads it after a failed Dial (without the
\* mutex: read before the write of Close is visible, dial sleeps and tries
\* again) and as handleConnection reads it under the mutex
Stopped(s) == s.closeFlag

\* dial(): Dial succeeds and the connection is returned (closeFlag or not)
Dial(s) ==
    /\ wk[s].pc = "dial"
    /\ NewId \in ConnIds
    /\ sup' = [sup EXCEPT !.n = NewId]
    /\ wk' = [wk EXCEPT ![s] = [pc |-> "handle", cur |-> NewId]]
    /\ UNCHANGED <<run, rd, cl, onClose, connVars>>

\* dial(): Dial fails and closeFlag is seen set: nil is returned, connect()
\* returns, the deferred wg.Done().  (Seen unset, dial sleeps and tries again.)
DialFails(s) ==
    /\ wk[s].pc = "dial"
    /\ Stopped(sup)
    /\ wk' = [wk EXCEPT ![s] = [pc |-> "done", cur |-> 0]]
    /\ sup' = [sup EXCEPT !.wgConns = @ - 1]
    /\ UNCHANGED <<run, rd, cl, onClose, connVars>>

\* handleConnection: under the client's mutex, with closeFlag set close the
\* connection and give up (connect() returns); otherwise put it in the set,
\* make the connection object and the agent and run it
Handle(s) ==
    /\ wk[s].pc = "handle"
    /\ LET c == wk[s].cur
       IN  IF Stopped(sup)
           THEN /\ tc' = [tc EXCEPT ![c].netClosed = TRUE]
                /\ rd' = [rd EXCEPT ![c] = "refused"]
                /\ wk' = [wk EXCEPT ![s] = [pc |-> "done", cur |-> 0]]
                /\ sup' = [sup EXCEPT !.wgConns = @ - 1]
           ELSE /\ sup' = [sup EXCEPT !.conns = @ \cup {c}]
                /\ tc' = [tc EXCEPT ![c] =
                            newConn(ConnKind(sup.kind), sup.pendingWriteNum, MaxLen)]
                /\ rd' = [rd EXCEPT ![c] = "run"]
                /\ wk' = [wk EXCEPT ![s].pc = "conn"]
    /\ UNCHANGED <<run, cl, onClose, call, hist>>

\* a connect() that ends after its agent whatever AutoReconnect says
AfterConnStops(s) ==
    /\ wk[s].pc = "conn"
    /\ rd[wk[s].cur] = "done"
    /\ wk' = [wk EXCEPT ![s] = [pc |-> "done", cur |-> 0]]
    /\ sup' = [sup EXCEPT !.wgConns = @ - 1]
    /\ UNCHANGED <<run, rd, cl, onClose, connVars>>

\* connect(): the agent's OnClose has returned; without AutoReconnect the
\* goroutine ends (the deferred wg.Done()), with it it sleeps ConnectInterval
AfterConn(s) ==
    /\ wk[s].pc = "conn"
    /\ rd[wk[s].cur] = "done"
    /\ IF sup.autoReconnect
       THEN /\ wk' = [wk EXCEPT ![s] = [pc |-> "sleep", cur |-> 0]]
            /\ UNCHANGED sup
       ELSE /\ wk' = [wk EXCEPT ![s] = [pc |-> "done", cur |-> 0]]
            /\ sup' = [sup EXCEPT !.wgConns = @ - 1]
    /\ UNCHANGED <<run, rd, cl, onClose, connVars>>

\* connect(): the sleep is over, dial again
Redial(s) ==
    /\ wk[s].pc = "sleep"
    /\ wk' = [wk EXCEPT ![s].pc = "dial"]
    /\ UNCHANGED <<sup, run, rd, cl, onClose, connVars>>

\* the supervisors after Start has returned: a server with its listener open
\* and run() about to begin, a client with its connect() goroutines started
StartedSups ==
    {[NoSup EXCEPT !.kind = k, !.maxConnNum = m, !.connsNil = FALSE] :
        k \in Servers, m \in 1..(MaxConns - 1)}
    \cup
    {[NoSup EXCEPT !.kind = k, !.connNum = n, !.wgConns = n, !.autoReconnect = a,
                   !.connsNil = FALSE] :
        k \in Clients, n \in Slots, a \in BOOLEAN}

InitSup ==
    /\ msgParser = ConnParser
    /\ IdleParser
    /\ IdleProc
    /\ IdleMod
    /\ IdleAcc
    /\ IdleDbq
    /\ IdleRpc
    /\ IdleAsyn
    /\ IdleConns
    /\ sup \in StartedSups
    /\ run = [pc |-> CASE sup.kind = "tcpserver" -> "start"
                       [] sup.kind = "wsserver" -> "accept"
                       [] OTHER -> "none",
              cur |-> 0]
    /\ rd = [c \in ConnIds |-> "none"]
    /\ wk = [s \in Slots |->
               [pc |-> IF sup.kind \in Clients /\ s <= sup.connNum THEN "dial" ELSE "none",
                cur |-> 0]]
    /\ cl = "idle"
    /\ onClose = [c \in ConnIds |-> 0]

supRest == <<msgParser, parserVars, procVars, rpcVars, asynVars, modVars, accVars, dbqVars>>

\* the application, from a goroutine of its own, destroys an agent's
\* connection (Agent.Destroy), once
AgentDestroy ==
    \E c \in ConnIds :
        /\ hist[-1] = <<>>
        /\ Destroy(-1, c)
        /\ UNCHANGED <<supVars, supRest>>

SupWriter == \E c \in ConnIds : Writer(c) /\ UNCHANGED <<supVars, supRest>>

SrvRunStart == RunStart /\ UNCHANGED supRest
SrvAccept == Accept /\ UNCHANGED supRest
SrvAcceptFails == AcceptFails /\ UNCHANGED supRest
SrvAdmit == Admit /\ UNCHANGED supRest
SrvSpawn == Spawn /\ UNCHANGED supRest
SrvServe == Serve /\ UNCHANGED supRest
SrvUpgrade == \E c \in ConnIds : Upgrade(c) /\ UNCHANGED supRest
SrvWSAdmit == \E c \in ConnIds : WSAdmit(c) /\ UNCHANGED supRest

AgentRunReturns == \E c \in ConnIds : RunReturns(c) /\ UNCHANGED supRest
AgentConnClose == \E c \in ConnIds : ConnClose(c) /\ UNCHANGED supRest
AgentConnCloseSend == \E c \in ConnIds : ConnCloseSend(c) /\ UNCHANGED supRest
AgentConnDelete == \E c \in ConnIds : ConnDelete(c) /\ UNCHANGED supRest
AgentOnCloseStart == \E c \in ConnIds : OnCloseStart(c) /\ UNCHANGED supRest
AgentOnCloseReturns == \E c \in ConnIds : OnCloseReturns(c) /\ UNCHANGED supRest

CliDial == \E s \in Slots : Dial(s) /\ UNCHANGED supRest
CliDialFails == \E s \in Slots : DialFails(s) /\ UNCHANGED supRest
CliHandle == \E s \in Slots : Handle(s) /\ UNCHANGED supRest
CliAfterConn == \E s \in Slots : AfterConn(s) /\ UNCHANGED supRest
CliRedial == \E s \in Slots : Redial(s) /\ UNCHANGED supRest

SupCloseListener == CloseListener /\ UNCHANGED supRest
SupWaitListener == WaitListener /\ UNCHANGED supRest
SupCloseConns == CloseConns /\ UNCHANGED supRest
SupWaitConns == WaitConns /\ UNCHANGED supRest

NextSup ==
    \/ SrvRunStart \/ SrvAccept \/ SrvAcceptFails \/ SrvAdmit \/ SrvSpawn
    \/ SrvServe \/ SrvUpgrade \/ SrvWSAdmit
    \/ AgentRunReturns \/ AgentConnClose \/ AgentConnCloseSend \/ AgentConnDelete
    \/ AgentOnCloseStart \/ AgentOnCloseReturns
    \/ CliDial \/ CliDialFails \/ CliHandle \/ CliAfterConn \/ CliRedial
    \/ SupCloseListener \/ SupWaitListener \/ SupCloseConns \/ SupWaitConns
    \/ AgentDestroy \/ SupWriter

SpecSup == InitSup /\ [][NextSup]_vars

(***************************************************************************)
(* Properties of the supervisors.                                          *)
(***************************************************************************)
\* the connections an agent was made for (NewAgent has been called)
HasAgent(c) ==
    rd[c] \in {"run", "close", "closing", "delete", "onclose", "inOnClose", "done"}

\* the goroutine serving connection c has ended, or never had an agent to run
ReaderOver(c) == rd[c] \in {"none", "refused", "done"}

\* the writer goroutine of connection c has ended, or never started
WriterOver(c) == tc[c].wpc \in {"none", "done"}

\* C4: a TCPServer or WSServer with MaxConnNum = N holds at most N
\* connections in its connection set, in every reachable state.
AdmissionCap ==
    sup.kind \in Servers => Cardinality(sup.conns) <= sup.maxConnNum

\* the set is full, one more connection came and was turned away, and the
\* server is still open
AdmissionCapWitness ==
    /\ sup.kind \in Servers
    /\ cl = "idle"
    /\ Cardinality(sup.conns) = sup.maxConnNum
    /\ \E c \in ConnIds : rd[c] = "refused" /\ tc[c].netClosed /\ c \notin sup.conns

\* the admission decision is taken for connection c in this step
Decides(c) ==
    \/ sup.kind = "tcpserver" /\ run.pc = "admit" /\ run.cur = c /\ run'.pc # "admit"
    \/ sup.kind = "wsserver" /\ rd[c] = "admit" /\ rd'[c] # "admit"

\* C11: a connection that arrives when the connection set holds MaxConnNum
\* entries is closed and gets no agent (no connection object, no writer
\* goroutine, no OnClose, then or later), and refusing it leaves the
\* connection set and every other connection as they were.
RefusalLeavesNoTrace ==
    /\ [][\A c \in ConnIds :
            (Decides(c) /\ Cardinality(sup.conns) >= sup.maxConnNum) =>
               /\ rd'[c] = "refused"
               /\ tc'[c].netClosed /\ ~tc'[c].made /\ tc'[c].wpc = "none"
               /\ sup'.conns = sup.conns
               /\ onClose' = onClose
               /\ \A d \in ConnIds \ {c} : tc'[d] = tc[d] /\ rd'[d] = rd[d]]_vars
    /\ [](\A c \in ConnIds :
            (sup.kind \in Servers /\ rd[c] = "refused") =>
               /\ ~tc[c].made /\ tc[c].wpc = "none"
               /\ onClose[c] = 0 /\ hist[c] = <<>>
               /\ c \notin sup.conns)

\* the second connection was refused while the first one's agent was running,
\* and the first is running still
RefusalLeavesNoTraceWitness ==
    /\ sup.kind \in Servers
    /\ sup.conns = {1}
    /\ rd[1] = "run" /\ tc[1].made /\ ~tc[1].netClosed /\ ~tc[1].closeFlag
    /\ rd[2] = "refused" /\ tc[2].netClosed

\* C5: once TCPServer.Close has returned, the accept loop, every
\* connection's reader goroutine and every connection's writer goroutine
\* have ended.
CleanShutdown ==
    (sup.kind = "tcpserver" /\ cl = "returned") =>
        /\ run.pc = "done"
        /\ \A c \in ConnIds : ReaderOver(c) /\ WriterOver(c)

\* C6: when a server's Close returns, OnClose has returned for every agent
\* the server made, and no OnClose starts afterwards.
OnCloseBeforeCloseReturns ==
    /\ []((sup.kind \in Servers /\ cl = "returned") =>
              \A c \in ConnIds : HasAgent(c) => onClose[c] = 1 /\ rd[c] = "done")
    /\ [][(sup.kind \in Servers /\ cl = "returned") => onClose' = onClose]_vars

\* Close has returned on a server that had an agent running when Close began
\* closing the connections
OnCloseBeforeCloseReturnsWitness ==
    /\ sup.kind \in Servers
    /\ cl = "returned"
    /\ \E c \in ConnIds : rd[c] = "done" /\ onClose[c] = 1 /\ tc[c].netClosed
                           /\ hist[c] # <<>> /\ hist[c][1].eff = "enqueued"

\* C7: OnClose of an agent is called at most once, only after the agent's Run
\* has returned and its connection has left the connection set, and it has
\* been called once the goroutine that served the agent is over.
OnCloseExactlyOnce ==
    \A c \in ConnIds :
        /\ onClose[c] <= 1
        /\ onClose[c] = 1 => rd[c] \in {"inOnClose", "done"} /\ c \notin sup.conns
        /\ (HasAgent(c) /\ rd[c] = "done") => onClose[c] = 1

\* two agents of one supervisor, one ended by the application's Destroy and
\* one by the supervisor's Close, have both had their OnClose
OnCloseExactlyOnceWitness ==
    /\ cl = "returned"
    /\ \A c \in {1, 2} : rd[c] = "done" /\ onClose[c] = 1
    /\ hist[-1] # <<>>

(***************************************************************************)
(* Properties of one connection.                                           *)
(***************************************************************************)
Last(q) == q[Len(q)]

\* goroutine t completes a call in this step
Returns(t) == Len(hist'[t]) = Len(hist[t]) + 1

\* the length of a completed WriteMsg is one the connection accepts
InRange(rec) ==
    IF tc[rec.c].kind = "tcp"
    THEN msgParser.minMsgLen <= rec.len /\ rec.len <= msgParser.maxMsgLen
    ELSE 1 <= rec.len /\ rec.len <= tc[rec.c].maxMsgLen

\* C2: MsgParser.Write of parts longer than maxMsgLen fails with "message too
\* long", of parts shorter than minMsgLen with "message too short", and the
\* failed call leaves the connection, its outbound queue included, as it was.
LengthEnforced ==
    [][\A t \in Apps :
         (Returns(t) /\ Last(hist'[t]).op = "WriteMsg"
                     /\ tc[Last(hist'[t]).c].kind = "tcp") =>
            LET rec == Last(hist'[t])
            IN  /\ rec.len > msgParser.maxMsgLen =>
                      rec.err = "message too long" /\ tc' = tc
                /\ rec.len < msgParser.minMsgLen =>
                      rec.err = "message too short" /\ tc' = tc]_vars

LengthEnforcedWitness ==
    /\ tc[1].kind = "tcp"
    /\ tc[1].writeChan # <<>>
    /\ \E i, j \in 1..Len(hist[-1]) :
          /\ hist[-1][i].err = "message too long"
          /\ hist[-1][j].err = "message too short"

\* the buffers goroutine t has enqueued with WriteMsg, in call order
RECURSIVE Enqueued(_)
Enqueued(h) ==
    IF h = <<>> THEN <<>>
    ELSE IF Head(h).op = "WriteMsg" /\ Head(h).eff = "enqueued"
         THEN <<Head(h).b>> \o Enqueued(Tail(h))
         ELSE Enqueued(Tail(h))

RECURSIVE Only(_, _)
\* the members of S in q, in q's order
Only(q, S) ==
    IF q = <<>> THEN <<>>
    ELSE IF Head(q) \in S THEN <<Head(q)>> \o Only(Tail(q), S) ELSE Only(Tail(q), S)

Range(q) == {q[i] : i \in 1..Len(q)}

IsPrefix(p, q) == Len(p) <= Len(q) /\ p = SubSeq(q, 1, Len(p))

\* C3: the buffers one goroutine enqueued on a connection are handed to the
\* underlying stream by the writer in the order that goroutine enqueued them,
\* whatever other goroutines write to the same connection.
WriterOrdering ==
    \A t \in Apps :
        IsPrefix(Only(tc[1].handed, Range(Enqueued(hist[t]))), Enqueued(hist[t]))

WriterOrderingWitness ==
    /\ Len(tc[1].handed) >= 3
    /\ tc[1].nWritten >= 2
    /\ tc[1].handed[1] \in Range(Enqueued(hist[-1]))
    /\ tc[1].handed[2] \in Range(Enqueued(hist[-2]))
    /\ tc[1].handed[3] \in Range(Enqueued(hist[-1]))

\* C8: a WriteMsg of an accepted length that starts after Close or Destroy
\* has returned on the connection returns no error at once, leaves the
\* outbound queue as it was and does not panic.
WriteAfterCloseIgnored ==
    [][\A t \in Apps :
         (Returns(t) /\ Last(hist'[t]).op = "WriteMsg" /\ Last(hist'[t]).late
                     /\ InRange(Last(hist'[t]))) =>
            LET rec == Last(hist'[t])
            IN  /\ rec.err = "nil"
                /\ call[t].pc = "idle"
                /\ tc'[rec.c].writeChan = tc[rec.c].writeChan
                /\ ~tc'[rec.c].panicked]_vars

WriteAfterCloseIgnoredWitness ==
    /\ Len(hist[-1]) >= 2
    /\ hist[-1][1].op = "Destroy"
    /\ hist[-1][2].op = "WriteMsg" /\ hist[-1][2].late /\ hist[-1][2].eff = "ignored"
    /\ Len(hist[-2]) >= 2
    /\ hist[-2][1].eff = "enqueued"
    /\ hist[-2][2].late /\ hist[-2][2].eff = "ignored"

\* goroutine t, in this step, gets as far as doWrite in a WriteMsg on c
TriesToEnqueue(t, c) ==
    /\ call[t].pc = "idle"
    /\ \/ /\ Returns(t)
          /\ Last(hist'[t]).op = "WriteMsg" /\ Last(hist'[t]).c = c
          /\ Last(hist'[t]).err = "nil" /\ Last(hist'[t]).eff # "ignored"
       \/ /\ call'[t].pc = "send"
          /\ call'[t].rec.op = "WriteMsg" /\ call'[t].c = c

\* C9: a WriteMsg that finds PendingWriteNum buffers in the outbound queue
\* destroys the connection (the buffer is not enqueued, the stream and the
\* queue are closed, closeFlag is set), and no WriteMsg ever waits for room
\* in the queue.
QueueFullDestroys ==
    /\ [][\A t \in Apps, c \in ConnIds :
            (TriesToEnqueue(t, c) /\ Len(tc[c].writeChan) = tc[c].cap) =>
               /\ Returns(t) /\ Last(hist'[t]).eff = "destroyed"
               /\ tc'[c].writeChan = tc[c].writeChan
               /\ tc'[c].netClosed /\ tc'[c].chanClosed /\ tc'[c].closeFlag]_vars
    /\ [](\A t \in Apps :
            call[t].pc = "send" =>
               /\ ~tc[call[t].c].chanClosed
               /\ Len(tc[call[t].c].writeChan) < tc[call[t].c].cap)

QueueFullDestroysWitness ==
    /\ Len(hist[-2]) = 2
    /\ hist[-2][2].op = "WriteMsg" /\ hist[-2][2].eff = "destroyed"
    /\ Len(tc[1].writeChan) = tc[1].cap
    /\ tc[1].cap = 2
    /\ tc[1].chanClosed /\ tc[1].netClosed /\ tc[1].closeFlag

\* goroutine -1 has made three WriteMsg calls of accepted lengths first, on a
\* connection with PendingWriteNum = 2 that nobody else has used and whose
\* stream has completed no write and reported no error
ThreeWritesStalled ==
    /\ tc[1].cap = 2
    /\ hist[-2] = <<>>
    /\ Len(hist[-1]) >= 3
    /\ \A i \in 1..3 : hist[-1][i].op = "WriteMsg" /\ InRange(hist[-1][i])
    /\ tc[1].nWritten = 0 /\ ~tc[1].writeErr

\* C10 as stated: the first two are enqueued and the third destroys.
ThirdWriteDestroys ==
    ThreeWritesStalled =>
        /\ hist[-1][1].eff = "enqueued"
        /\ hist[-1][2].eff = "enqueued"
        /\ hist[-1][3].eff = "destroyed"

\* C10, amended: the first two are enqueued; the third destroys the
\* connection unless the writer goroutine has already taken the first buffer
\* off the queue, and then the third is enqueued too.
ThirdWriteDestroysUnlessTaken ==
    ThreeWritesStalled =>
        /\ hist[-1][1].eff = "enqueued"
        /\ hist[-1][2].eff = "enqueued"
        /\ \/ hist[-1][3].eff = "destroyed"
           \/ /\ hist[-1][3].eff = "enqueued"
              /\ tc[1].handed = <<hist[-1][1].b>>
              /\ tc[1].wpc = "write"
              /\ tc[1].writeChan = <<hist[-1][2].b, hist[-1][3].b>>

ThirdWriteDestroysWitness ==
    /\ ThreeWritesStalled
    /\ hist[-1][3].eff = "destroyed"
    /\ tc[1].handed = <<>>

\* the calls of goroutine t that have returned, by operation and effect
Returned(t, op, eff) ==
    {i \in DOMAIN hist[t] : hist[t][i].op = op /\ hist[t][i].eff = eff}

\* goroutine t enters Close in this step
CloseBegins(t) ==
    /\ call[t].pc = "idle"
    /\ \/ call'[t].pc = "send" /\ call'[t].rec.op = "Close"
       \/ /\ Len(hist'[t]) = Len(hist[t]) + 1
          /\ hist'[t][Len(hist'[t])].op = "Close"

\* C34: however many times Close is called on a connection, the nil signal
\* is enqueued once at most, and a Close on a connection that is closed or
\* destroyed leaves writeChan and closeFlag (and the stream) as they are
CloseIdempotent ==
    /\ [](/\ Cardinality(Returned(-1, "Close", "enqueued")) <= 1
          /\ Len(SelectSeq(tc[1].writeChan, LAMBDA b : b = NilBuf)) <= 1)
    /\ [][\A t \in Apps :
            (CloseBegins(t) /\ (tc[1].closeFlag \/ tc[1].chanClosed)) =>
               /\ call'[t].pc = "idle"
               /\ hist'[t][Len(hist'[t])].eff = "ignored"
               /\ tc'[1].writeChan = tc[1].writeChan
               /\ tc'[1].closeFlag = tc[1].closeFlag
               /\ tc'[1].chanClosed = tc[1].chanClosed
               /\ tc'[1].netClosed = tc[1].netClosed]_vars

\* three Close calls: the first enqueued the nil signal, which is still in
\* the queue, the other two did nothing
CloseIdempotentWitness ==
    /\ Len(hist[-1]) = 3
    /\ \A i \in 1..3 : hist[-1][i].op = "Close"
    /\ hist[-1][1].eff = "enqueued"
    /\ hist[-1][2].eff = "ignored" /\ hist[-1][3].eff = "ignored"
    /\ tc[1].writeChan = <<NilBuf>>

\* the writer goroutine has left its loop (and closes the stream, or has)
WriterLeft(c) == tc[c].wpc \in {"close", "flag", "done"}

\* the buffers goroutine t got into the queue with WriteMsg calls that
\* returned before it called Close
EnqueuedBeforeClose(t) ==
    {hist[t][j].b : j \in {j \in DOMAIN hist[t] :
        /\ hist[t][j].op = "WriteMsg" /\ hist[t][j].eff = "enqueued"
        /\ \E i \in DOMAIN hist[t] : i > j /\ hist[t][i].op = "Close"}}

\* C35: when the writer goroutine leaves its loop to close the stream and no
\* write to the stream has failed, every buffer a WriteMsg enqueued before
\* Close was called has been handed to the stream, and written
GracefulClose ==
    (WriterLeft(1) /\ ~tc[1].writeErr) =>
        /\ \A b \in EnqueuedBeforeClose(-1) :
               \E i \in DOMAIN tc[1].handed : tc[1].handed[i] = b
        /\ tc[1].nWritten = Len(tc[1].handed)

\* two messages were enqueued, Close enqueued the nil signal behind them,
\* and the writer wrote both and then closed the stream
GracefulCloseWitness ==
    /\ tc[1].cap = 2 /\ hist[-2] = <<>>
    /\ Len(hist[-1]) = 3
    /\ hist[-1][1].op = "WriteMsg" /\ hist[-1][1].eff = "enqueued"
    /\ hist[-1][2].op = "WriteMsg" /\ hist[-1][2].eff = "enqueued"
    /\ hist[-1][3].op = "Close" /\ hist[-1][3].eff = "enqueued"
    /\ tc[1].wpc = "done" /\ tc[1].netClosed /\ ~tc[1].writeErr
    /\ tc[1].handed = <<hist[-1][1].b, hist[-1][2].b>>

\* C37: under every interleaving of WriteMsg, Close, Destroy and the exit
\* of the writer goroutine on a connection, the queue channel is closed at
\* most once (a second close would panic) and no buffer is sent on it once
\* it is closed (the send would panic): no operation panics, a closed
\* channel stays closed and its queue only shrinks
ChannelNeverPanics ==
    /\ [](\A c \in ConnIds :
             /\ ~tc[c].panicked
             /\ tc[c].chanClosed => tc[c].closeFlag)
    /\ [][\A c \in ConnIds :
             tc[c].chanClosed =>
                 /\ tc'[c].chanClosed
                 /\ Len(tc'[c].writeChan) <= Len(tc[c].writeChan)]_vars

\* the writer left on a failed write and set closeFlag with the channel
\* still open; a Destroy, a Close and a WriteMsg followed on the connection
ChannelNeverPanicsWitness ==
    /\ tc[1].writeErr /\ tc[1].wpc = "done" /\ ~tc[1].chanClosed
    /\ \E t \in Apps :
           /\ Len(hist[t]) = 3
           /\ hist[t][1].op = "WriteMsg" /\ hist[t][1].eff = "enqueued"
           /\ hist[t][2].op = "Destroy" /\ hist[t][2].late = FALSE
           /\ hist[t][3].op \in {"Close", "WriteMsg"} /\ hist[t][3].eff = "ignored"

(***************************************************************************)
(* The Processor on its own: the application registers types and sets      *)
(* handlers, then frames go through Unmarshal and Route, and messages      *)
(* through Marshal and back through Unmarshal.                             *)
(***************************************************************************)
\* the ids frames carry, and what follows the id
FrameIds == {0, 1, NearFull, MaxUint16}

Payloads == {<<>>, <<8, 1>>, <<7>>}

\* the frames a peer sends: too short for an id, or an id in either byte
\* order and a payload
Frames ==
    {<<>>, <<0>>} \cup
    {PutUint(id, 2, e) \o pl : id \in FrameIds, e \in BOOLEAN, pl \in Payloads}

\* a registry as the application left it in an earlier run of registrations
InitProc ==
    /\ IdleMod
    /\ IdleAcc
    /\ IdleDbq
    /\ msgParser = ConnParser
    /\ IdleParser
    /\ IdleRpc
    /\ IdleAsyn
    /\ IdleConns
    /\ IdleSup
    /\ proc \in {Registered(0), Registered(NearFull)}
    /\ pr = NoFrame

procRest == <<msgParser, parserVars, connVars, supVars, rpcVars, asynVars, modVars, accVars, dbqVars>>

\* registrations and handlers are set before traffic flows
DoSetByteOrder ==
    /\ pr = NoFrame
    /\ proc.regs = <<>>
    /\ \E b \in BOOLEAN : proc' = ProcessorSetByteOrder(proc, b)
    /\ UNCHANGED <<pr, procRest>>

DoRegister ==
    /\ pr = NoFrame
    /\ Len(proc.regs) < MaxRegs
    /\ \E t \in AppTypes : proc' = ProcessorRegister(proc, t)
    /\ UNCHANGED <<pr, procRest>>

\* SetHandler of a type that is not registered ends the process (logs.Fatal)
DoSetHandler ==
    /\ pr = NoFrame
    /\ proc.sets < MaxSets
    /\ \E t \in AppTypes :
          /\ MsgIDOf(proc, t) # NoID
          /\ ~InfoAt(proc, MsgIDOf(proc, t)).msgHandler
          /\ proc' = ProcessorSetHandler(proc, t)
    /\ UNCHANGED <<pr, procRest>>

\* SetRawHandler of an id that is not below uint16(len(msgInfo)) ends the
\* process (logs.Fatal)
DoSetRawHandler ==
    /\ pr = NoFrame
    /\ proc.sets < MaxSets
    /\ \E k \in 1..Len(proc.regs) :
          LET id == proc.regs[k].id
          IN  /\ id < Uint16(proc.len)
              /\ ~InfoAt(proc, id).msgRawHandler
              /\ proc' = ProcessorSetRawHandler(proc, id)
    /\ UNCHANGED <<pr, procRest>>

\* agent.WriteMsg at one end, the reader at the other: Marshal, the parts
\* laid end to end in one frame, Unmarshal
DoRoundTrip ==
    /\ \E t \in AppTypes \cup {Filler(0)}, v \in FieldVals :
          LET m == ProcessorMarshal(proc, Msg(t, v))
              u == ProcessorUnmarshal(proc, Concat(m.parts))
          IN  /\ m.err = "nil"
              /\ pr' = [NoFrame EXCEPT !.op = "roundtrip", !.in = Msg(t, v),
                                       !.data = Concat(m.parts),
                                       !.err = u.err, !.out = u.msg]
    /\ UNCHANGED <<proc, procRest>>

\* one turn of agent.Run on a frame the peer sent: Unmarshal, then Route
\* with the agent as userData
DoFrame ==
    /\ \E data \in Frames :
          LET u == ProcessorUnmarshal(proc, data)
              r == ProcessorRoute(proc, u.msg, 1)
          IN  pr' = IF u.err # "nil"
                    THEN [NoFrame EXCEPT !.op = "frame", !.data = data, !.err = u.err,
                                         !.by = 1]
                    ELSE [NoFrame EXCEPT !.op = "frame", !.data = data, !.out = u.msg,
                                         !.rerr = r.err, !.calls = r.calls,
                                         !.router = r.router, !.by = 1]
    /\ UNCHANGED <<proc, procRest>>

NextProc ==
    DoSetByteOrder \/ DoRegister \/ DoSetHandler \/ DoSetRawHandler \/ DoRoundTrip \/ DoFrame

SpecProc == InitProc /\ [][NextProc]_vars

\* the id a frame of two bytes or more carries
FrameId(data) == GetUint(SubSeq(data, 1, 2), proc.littleEndian)

\* C12: a message of a registered type that went through Marshal comes out
\* of Unmarshal as a message of the same type and value.
ProcessorIdentity ==
    pr.op = "roundtrip" => pr.err = "nil" /\ pr.out = pr.in

\* C13: a frame whose id has a raw handler comes out of Unmarshal as
\* MsgRaw{id, the bytes after the id}, and Route hands exactly
\* [id, bytes, userData] to the raw handler and calls nothing else.
RawPassthrough ==
    (/\ pr.op = "frame"
     /\ Len(pr.data) >= 2
     /\ FrameId(pr.data) < proc.len
     /\ InfoAt(proc, FrameId(pr.data)).msgRawHandler) =>
        /\ pr.err = "nil"
        /\ pr.out = MsgRaw(FrameId(pr.data), SubSeq(pr.data, 3, Len(pr.data)))
        /\ pr.rerr = "nil"
        /\ pr.calls = <<RawCall(pr.out, pr.by)>>
        /\ ~pr.router

\* C14: no type is registered twice: a Register of a registered type appends
\* no entry and leaves the type its id, so the entries' types are distinct.
DuplicateRejected ==
    \A j, k \in 1..Len(proc.regs) :
        j < k => /\ proc.regs[j].type # proc.regs[k].type
                 /\ MsgIDOf(proc, proc.regs[j].type) = proc.regs[j].id

\* C15: the k-th type registered has id k-1, and the type of entry i maps
\* back to i in msgID.
DenseIds ==
    \A k \in 1..Len(proc.regs) :
        /\ proc.regs[k].id = proc.fillers + k - 1
        /\ MsgIDOf(proc, InfoAt(proc, proc.fillers + k - 1).msgType) = proc.fillers + k - 1

\* C16: the registry holds at most MaxUint16 types, and no two entries have
\* been given the same id.
RegistryCapped ==
    /\ proc.len <= MaxUint16
    /\ \A k \in 1..Len(proc.regs) :
          /\ proc.regs[k].id >= proc.fillers
          /\ \A j \in 1..Len(proc.regs) : j # k => proc.regs[j].id # proc.regs[k].id

(***************************************************************************)
(* A gate: a TCPServer whose agents run agent.Run, which puts every frame  *)
(* it reads through the Processor's Unmarshal and Route; Route may call    *)
(* the router, a chanrpc Server with an owner goroutine.                   *)
(***************************************************************************)
GateConns == {1, 2}

\* the frames the peers send: peer 1 one byte, a message of type 1, id 1,
\* id 2; peer 2 a message of type 1
GateFrames(c) ==
    IF c = 1 THEN {<<0>>, <<0, 0, 8, 1>>, <<0, 1, 255>>, <<0, 2>>}
             ELSE {<<0, 0, 8, 1>>}

\* Register of types 1 and 2, SetRawHandler(1, h), and for type 1
\* SetHandler, SetRouter, both or neither
GateProcs ==
    LET p0 == ProcessorSetRawHandler(
                  ProcessorRegister(ProcessorRegister(NewProcessor, 1), 2), 1)
    IN  {p0, ProcessorSetHandler(p0, 1), ProcessorSetRouter(p0, 1),
         ProcessorSetRouter(ProcessorSetHandler(p0, 1), 1)}

\* the router: NewServer(l), with the function for type 1 registered or
\* not, and possibly closed since
GateRouters ==
    {NewServer(0), [NewServer(0) EXCEPT !.functions = {1}],
     [NewServer(1) EXCEPT !.functions = {1}],
     [NewServer(0) EXCEPT !.functions = {1}, !.closed = TRUE]}

\* the gate after Start, with the connections of GateConns accepted and
\* their agents in Run
InitGate ==
    /\ IdleMod
    /\ IdleAcc
    /\ IdleDbq
    /\ msgParser = ConnParser
    /\ IdleParser
    /\ sup = [NoSup EXCEPT !.kind = "tcpserver", !.maxConnNum = Cardinality(GateConns),
                           !.connsNil = FALSE, !.conns = GateConns,
                           !.n = Cardinality(GateConns), !.wgLn = 1,
                           !.wgConns = Cardinality(GateConns)]
    /\ run = [pc |-> "accept", cur |-> 0]
    /\ rd = [c \in ConnIds |-> IF c \in GateConns THEN "run" ELSE "none"]
    /\ wk = [s \in Slots |-> [pc |-> "none", cur |-> 0]]
    /\ cl = "idle"
    /\ onClose = [c \in ConnIds |-> 0]
    /\ tc = [c \in ConnIds |->
               IF c \in GateConns THEN newConn("tcp", sup.pendingWriteNum, 0) ELSE NoConn]
    /\ call = [t \in Callers |-> Idle]
    /\ hist = [t \in Callers |-> <<>>]
    /\ proc \in GateProcs
    /\ pr = NoFrame
    /\ rpc \in GateRouters
    /\ rpcCall = [t \in Callers |-> NoCall]
    /\ goHist = [t \in Callers |-> <<>>]
    /\ executed = <<>>
    /\ owner = IF rpc.closed THEN "returned" ELSE "select"
    /\ IdleAsyn

\* agent.Run leaves its loop with break and returns
LoopContinues(c) == rd

LoopBreaks(c) == [rd EXCEPT ![c] = "close"]

\* one turn of agent.Run of connection c: ReadMsg returns a frame,
\* Unmarshal, Route with the agent as userData (up to the channel send of
\* the router's Go); an error from either ends the loop
ReadFrame(c, data) ==
    /\ rd[c] = "run"
    /\ ~tc[c].netClosed
    /\ rpcCall[c].pc = "idle"
    /\ pr.n < MaxFrames
    /\ LET u == ProcessorUnmarshal(proc, data)
           r == ProcessorRoute(proc, u.msg, c)
           rec == [NoFrame EXCEPT !.op = "frame", !.data = data, !.by = c, !.n = pr.n + 1]
       IN  IF u.err # "nil"
           THEN /\ pr' = [rec EXCEPT !.err = u.err]
                /\ rd' = LoopBreaks(c)
                /\ UNCHANGED rpcVars
           ELSE /\ pr' = [rec EXCEPT !.out = u.msg, !.rerr = r.err, !.calls = r.calls,
                                     !.router = r.router]
                /\ rd' = IF r.err # "nil" THEN LoopBreaks(c) ELSE rd
                /\ IF r.router THEN Go(c, u.msg.type, <<u.msg, c>>)
                               ELSE UNCHANGED rpcVars
    /\ UNCHANGED <<proc, sup, run, wk, cl, onClose, connVars, msgParser, parserVars,
                   asynVars, modVars, accVars, dbqVars>>

gateRest == <<msgParser, parserVars, connVars, supVars, procVars, asynVars, modVars, accVars, dbqVars>>

GateReadFrame == \E c \in GateConns : \E data \in GateFrames(c) : ReadFrame(c, data)

\* the reader's Go completes its channel send
GateGoSend == \E c \in GateConns : GoSend(c) /\ UNCHANGED gateRest

\* the router's owner receives a call and executes it
GateExec ==
    (ExecBuffered \/ \E c \in GateConns : ExecHandoff(c)) /\ UNCHANGED gateRest

GateExecReturns == ExecReturns /\ UNCHANGED rpcOthers

\* ReadMsg fails (the peer closed the stream) and agent.Run returns
GateRunReturns ==
    \E c \in GateConns :
        /\ rpcCall[c].pc = "idle"
        /\ RunReturns(c)
        /\ UNCHANGED supRest

NextGate ==
    \/ GateReadFrame \/ GateGoSend \/ GateExec \/ GateExecReturns \/ GateRunReturns
    \/ AgentConnClose \/ AgentConnCloseSend \/ AgentConnDelete
    \/ AgentOnCloseStart \/ AgentOnCloseReturns \/ SupWriter

SpecGate == InitGate /\ [][NextGate]_vars

\* a goroutine that can take a step is scheduled in the end: the cleanup
\* after agent.Run and the connection's writer
GateFairness ==
    \A c \in GateConns :
        /\ WF_vars(ConnClose(c) /\ UNCHANGED supRest)
        /\ WF_vars(ConnCloseSend(c) /\ UNCHANGED supRest)
        /\ WF_vars(ConnDelete(c) /\ UNCHANGED supRest)
        /\ WF_vars(Writer(c) /\ UNCHANGED <<supVars, supRest>>)

SpecGateFair == SpecGate /\ GateFairness

(***************************************************************************)
(* Properties of the gate                                                  *)
(***************************************************************************)
\* the last frame was read by c and Unmarshal returned an error for it
FrameFailed(c) == pr.op = "frame" /\ pr.by = c /\ pr.err # "nil"

\* C17: a frame shorter than 2 bytes or with an id that has no MsgInfo makes
\* Unmarshal return an error; the step that reads it ends the reader loop of
\* that connection and touches nothing else; the connection's stream is
\* eventually closed and its entry removed from the set; a connection
\* leaves the set only after its own loop ended, and one whose loop is
\* running stays open and in the set
BadFrameEndsConnection ==
    /\ [](pr.op = "frame" /\ (Len(pr.data) < 2 \/ FrameId(pr.data) >= proc.len)
            => pr.err # "nil")
    /\ [][ /\ pr'.n # pr.n /\ pr'.err # "nil" =>
               /\ rd[pr'.by] = "run"
               /\ rd' = [rd EXCEPT ![pr'.by] = "close"]
               /\ tc' = tc /\ sup' = sup /\ onClose' = onClose
               /\ rpc' = rpc /\ executed' = executed /\ owner' = owner
           /\ \A d \in GateConns :
                  d \in sup.conns /\ d \notin sup'.conns =>
                      rd[d] = "delete" /\ sup'.conns = sup.conns \ {d} ]_vars
    /\ [](\A d \in GateConns : rd[d] = "run" => ~tc[d].netClosed /\ d \in sup.conns)
    /\ \A c \in GateConns :
           FrameFailed(c) ~> (tc[c].netClosed /\ c \notin sup.conns)

\* connection 1 read a frame with the unregistered id 2 and is closed and
\* out of the set, while connection 2 is in its loop
BadFrameEndsConnectionWitness ==
    /\ FrameFailed(1) /\ pr.data = <<0, 2>>
    /\ tc[1].netClosed /\ 1 \notin sup.conns
    /\ rd[2] = "run" /\ 2 \in sup.conns

\* the calls connection c's reader has put on the router's channel, in the
\* order the owner takes them
Put(c) == SelectSeq(executed \o rpc.chanCall, LAMBDA ci : ci.from = c)

\* the calls of c's reader that Go reports as put on the channel
Went(c) ==
    LET done == SelectSeq(goHist[c], LAMBDA r : r.eff = "sent")
    IN  [k \in DOMAIN done |-> CallInfo(done[k].id, done[k].args, c, "nil", 0)]

\* the step in which Route handles a frame of a registered type: the handler
\* of the type, if set, is called once with [msg, agent]; if a router is set
\* its Go is called once with the message type and [msg, agent], and not
\* otherwise; Route returns nil, the loop goes on and the connection and the
\* set are as before
RouteRuns ==
    pr'.n # pr.n /\ pr'.err = "nil" /\ ~pr'.out.raw =>
        LET c == pr'.by
            msg == pr'.out
            i == InfoAt(proc, MsgIDOf(proc, msg.type))
            ci == CallInfo(msg.type, <<msg, c>>, c, "nil", 0)
        IN  /\ pr'.calls = IF i.msgHandler THEN <<HandlerCall(msg, c)>> ELSE <<>>
            /\ pr'.rerr = "nil"
            /\ rd' = rd /\ rd[c] = "run"
            /\ tc' = tc /\ sup' = sup
            /\ rpc' = rpc /\ executed' = executed /\ owner' = owner
            /\ IF i.msgRouter
               THEN \/ /\ rpcCall' = [rpcCall EXCEPT ![c] = [pc |-> "send", ci |-> ci]]
                       /\ goHist' = goHist
                    \/ /\ rpcCall' = rpcCall
                       /\ goHist' = [goHist EXCEPT ![c] =
                              Append(@, [id |-> ci.id, args |-> ci.args, eff |-> "nofunc"])]
               ELSE rpcCall' = rpcCall /\ goHist' = goHist

\* C18 as stated: for each well-formed frame of a registered type Route
\* calls the handler (if set) once with [msg, userData] and, if a router is
\* also set, one call keyed by the message type is put on that server's
\* channel by every Go
RouteFiresBoth ==
    /\ [][RouteRuns]_vars
    /\ [](\A c \in GateConns :
             /\ Put(c) = Went(c)
             /\ \A k \in DOMAIN goHist[c] : goHist[c][k].eff = "sent")

\* C18 amended: the router's Go puts exactly one call on the channel when
\* the server has a function registered under the message type and its
\* channel is not closed, and none otherwise
RouteFiresBothIfServed ==
    /\ [][RouteRuns]_vars
    /\ [](\A c \in GateConns :
             /\ Put(c) = Went(c)
             /\ \A k \in DOMAIN goHist[c] :
                    goHist[c][k].eff = "sent" <=>
                        goHist[c][k].id \in rpc.functions /\ ~rpc.closed)

\* handler and router are set for type 1: the frame of connection 1 reached
\* the handler, its call was executed by the router's owner, and the
\* connection is still in its loop
RouteFiresBothWitness ==
    /\ pr.op = "frame" /\ pr.by = 1 /\ pr.err = "nil" /\ ~pr.out.raw
    /\ pr.calls = <<HandlerCall(pr.out, 1)>>
    /\ InfoAt(proc, MsgIDOf(proc, pr.out.type)).msgRouter
    /\ Len(executed) = 1 /\ executed[1].from = 1 /\ executed[1].args = <<pr.out, 1>>
    /\ rd[1] = "run" /\ ~tc[1].netClosed /\ 1 \in sup.conns

(***************************************************************************)
(* A chanrpc Server on its own: the application goroutines call Go, the    *)
(* owner runs Skeleton.Run.                                                *)
(***************************************************************************)
\* the functions of the server: ids 1 and 2, of which 2 may be missing
RpcIds == {1, 2}

InitRpc ==
    /\ msgParser = ConnParser
    /\ IdleParser
    /\ IdleConns
    /\ IdleSup
    /\ IdleProc
    /\ IdleMod
    /\ IdleAcc
    /\ IdleDbq
    /\ rpc \in {[NewServer(l) EXCEPT !.functions = f] :
                  l \in 0..MaxChan, f \in {{1}, RpcIds}}
    /\ rpcCall = [t \in Callers |-> NoCall]
    /\ goHist = [t \in Callers |-> <<>>]
    /\ executed = <<>>
    /\ owner = "select"
    /\ IdleAsyn

rpcRest == <<msgParser, parserVars, connVars, supVars, procVars, asynVars, modVars, accVars, dbqVars>>


\* goroutine t calls Go(id, k), k being the number of this call among its own
RpcGo ==
    \E t \in Apps, id \in RpcIds :
        /\ Len(goHist[t]) < MaxGo
        /\ Go(t, id, <<Len(goHist[t]) + 1>>)
        /\ UNCHANGED rpcRest

RpcGoSend == \E t \in Apps : GoSend(t) /\ UNCHANGED rpcRest

RpcExecBuffered == ExecBuffered /\ UNCHANGED rpcRest

RpcExecHandoff == \E t \in Apps : ExecHandoff(t) /\ UNCHANGED rpcRest

RpcExecReturns == ExecReturns /\ UNCHANGED rpcOthers

RpcClose == ServerClose /\ UNCHANGED rpcOthers

NextRpc ==
    \/ RpcGo \/ RpcGoSend \/ RpcExecBuffered \/ RpcExecHandoff
    \/ RpcExecReturns \/ RpcClose

SpecRpc == InitRpc /\ [][NextRpc]_vars

(***************************************************************************)
(* Properties of the chanrpc Server                                        *)
(***************************************************************************)
\* the numbers of t's calls the owner has executed or will find in the
\* buffer, in that order
Taken(t) ==
    LET q == SelectSeq(executed \o rpc.chanCall, LAMBDA ci : ci.from = t)
    IN  [k \in DOMAIN q |-> q[k].args[1]]

\* C19: calls that one goroutine makes with Go are executed by the owner in
\* the order the goroutine made them, however the goroutines interleave
GoFifoPerProducer ==
    \A t \in Apps :
        /\ \A j, k \in DOMAIN Taken(t) : j < k => Taken(t)[j] < Taken(t)[k]
        /\ rpcCall[t].pc = "send" =>
               \A k \in DOMAIN Taken(t) : Taken(t)[k] < rpcCall[t].ci.args[1]

\* the owner executed the first call of goroutine -1, then one of
\* goroutine -2, then the second call of goroutine -1
GoFifoPerProducerWitness ==
    /\ Len(executed) = 3
    /\ executed[1].from = -1 /\ executed[1].args = <<1>>
    /\ executed[2].from = -2
    /\ executed[3].from = -1 /\ executed[3].args = <<2>>

\* C21: Go returns normally in every case; a Go with an id that has no
\* function, and a Go whose send met the closed channel, put nothing on the
\* channel and their call is never executed
GoDropsQuietly ==
    \A t \in Apps :
        \A k \in DOMAIN goHist[t] :
            LET r == goHist[t][k]
            IN  /\ r.eff \in {"sent", "nofunc", "closed"}
                /\ r.eff = "nofunc" <=> r.id \notin rpc.functions
                /\ r.eff = "closed" => rpc.closed
                /\ r.eff # "sent" =>
                       \A j \in DOMAIN Taken(t) : Taken(t)[j] # r.args[1]

\* goroutine -1 called Go with the unregistered id 2 and then Go on the
\* closed server; the owner had executed a call of goroutine -2 before
GoDropsQuietlyWitness ==
    /\ Len(goHist[-1]) = 2
    /\ goHist[-1][1].eff = "nofunc" /\ goHist[-1][2].eff = "closed"
    /\ Len(executed) = 1 /\ executed[1].from = -2
    /\ rpc.closed

\* C20: Go never makes its caller wait: whenever a goroutine is at the
\* channel send of Go, the send can complete at once, because the channel
\* is closed (the send panics and Go recovers), the buffer has room, or the
\* owner is at its select with nothing buffered and receives the call
GoNeverBlocks ==
    \A t \in Apps :
        rpcCall[t].pc = "send" =>
            \/ rpc.closed
            \/ Len(rpc.chanCall) < rpc.cap
            \/ owner = "select" /\ rpc.chanCall = <<>>

(***************************************************************************)
(* A chanrpc Client and its Skeleton: the Skeleton's goroutine makes       *)
(* AsynCalls to a Server owned by another goroutine, runs the callbacks    *)
(* from its loop, and closes the Client on shutdown; a further goroutine   *)
(* calls the Server with Call1.                                            *)
(***************************************************************************)
\* the goroutine of the Skeleton, as a caller of the Server
SkelId == 0

\* the goroutine that makes the blocking calls
SyncCallers == {-1}

\* the ids the callers use: Work, an id without a function, the function
\* that panics
AsynIds == {1, 2, PanicId}

InitAsyn ==
    /\ msgParser = ConnParser
    /\ IdleParser
    /\ IdleConns
    /\ IdleSup
    /\ IdleProc
    /\ IdleMod
    /\ IdleAcc
    /\ IdleDbq
    /\ rpc \in {[NewServer(l) EXCEPT !.functions = {1, PanicId}] : l \in {0, 1}}
    /\ rpcCall = [t \in Callers |-> NoCall]
    /\ goHist = [t \in Callers |-> <<>>]
    /\ executed = <<>>
    /\ owner = "select"
    /\ outcome = <<>>
    /\ client \in {NewClient(l) : l \in 1..MaxAsynCallLen}
    /\ skel = NewSkeleton

\* execCb(ri) on the Skeleton's goroutine, inside AsynCall, from the loop
\* of Run or from Close
ExecCb(ri, at) ==
    [skel EXCEPT !.cbs = Append(@, [cb |-> ri.cb, ret |-> ri.ret, err |-> ri.err, at |-> at])]

\* asynCall's c.ChanAsynRet <- &RetInfo{err, cb} followed by
\* pendingAsynCall++; without room the Skeleton's goroutine is stuck
AsynFail(k, err) ==
    IF Len(client.chanAsynRet) < client.cap
    THEN /\ client' = [client EXCEPT
                          !.chanAsynRet = Append(@, RetInfo(NoRet, err, k)),
                          !.pendingAsynCall = @ + 1]
         /\ skel' = [skel EXCEPT !.issued = k]
    ELSE /\ skel' = [skel EXCEPT !.issued = k, !.pc = "blocked"]
         /\ UNCHANGED client

\* c.call(ci, true): the send waits for room or for the owner
CallBlocking(ci) ==
    /\ skel' = [skel EXCEPT !.issued = ci.cb, !.pc = "blocked"]
    /\ UNCHANGED <<rpc, executed, owner, client>>

\* c.call(ci, false) with no room in the channel and no receiver: the
\* default case of the select, "chanrpc channel full"
CallFull(ci) ==
    /\ AsynFail(ci.cb, "chanrpc channel full")
    /\ UNCHANGED <<rpc, executed, owner>>

\* a check that lets one more call through
TooManyCallsOver == client.pendingAsynCall > client.cap

\* AsynCall: c.pendingAsynCall >= cap(c.ChanAsynRet)
TooManyCalls == client.pendingAsynCall >= client.cap

\* Client.AsynCall(id, x, cb) on the Skeleton's goroutine
AsynCall(id, x) ==
    /\ skel.pc = "select"
    /\ skel.issued < MaxAsyn
    /\ LET k == skel.issued + 1
           ci == CallInfo(id, <<x>>, SkelId, "asyn", k)
       IN  IF TooManyCalls
           THEN /\ skel' = [ExecCb(RetInfo(NoRet, "too many calls", k), "AsynCall") EXCEPT
                              !.issued = k]
                /\ UNCHANGED <<rpc, executed, owner, client>>
           ELSE IF id \notin rpc.functions
           THEN /\ AsynFail(k, "function not registered")
                /\ UNCHANGED <<rpc, executed, owner>>
           ELSE IF rpc.closed
           THEN /\ AsynFail(k, "send on closed channel")
                /\ UNCHANGED <<rpc, executed, owner>>
           ELSE \/ /\ Len(rpc.chanCall) < rpc.cap
                   /\ rpc' = [rpc EXCEPT !.chanCall = Append(@, ci)]
                   /\ client' = [client EXCEPT !.pendingAsynCall = @ + 1]
                   /\ skel' = [skel EXCEPT !.issued = k]
                   /\ UNCHANGED <<executed, owner>>
                \/ /\ rpc.chanCall = <<>> /\ owner = "select"
                   /\ executed' = Append(executed, ci)
                   /\ owner' = "exec"
                   /\ client' = [client EXCEPT !.pendingAsynCall = @ + 1]
                   /\ skel' = [skel EXCEPT !.issued = k]
                   /\ UNCHANGED rpc
                \/ /\ Len(rpc.chanCall) >= rpc.cap
                   /\ CallFull(ci)
    /\ UNCHANGED <<rpcCall, goHist, outcome>>

\* a Close that does not look at the counter
OutstandingNever == FALSE

\* the loop condition of Client.Close: c.pendingAsynCall > 0
Outstanding == client.pendingAsynCall > 0

\* a Cb that leaves the RetInfo in the channel
CbAgain ==
    /\ skel.pc \in {"select", "close"}
    /\ skel.pc = "close" => client.pendingAsynCall > 0
    /\ client.chanAsynRet # <<>>
    /\ Len(skel.cbs) < MaxAsyn
    /\ client' = [client EXCEPT !.pendingAsynCall = @ - 1]
    /\ skel' = ExecCb(Head(client.chanAsynRet), IF skel.pc = "select" THEN "Run" ELSE "Close")
    /\ UNCHANGED <<rpcVars, outcome>>

\* Client.Cb(<-c.ChanAsynRet): from the loop of Skeleton.Run, or from the
\* loop of Client.Close
Cb ==
    /\ skel.pc \in {"select", "close"}
    /\ skel.pc = "close" => Outstanding
    /\ client.chanAsynRet # <<>>
    /\ client' = [client EXCEPT !.chanAsynRet = Tail(@), !.pendingAsynCall = @ - 1]
    /\ skel' = ExecCb(Head(client.chanAsynRet), IF skel.pc = "select" THEN "Run" ELSE "Close")
    /\ UNCHANGED <<rpcVars, outcome>>

\* Skeleton.shutdown reaches s.client.Close()
ClientClose ==
    /\ skel.pc = "select"
    /\ skel' = [skel EXCEPT !.pc = "close"]
    /\ UNCHANGED <<rpcVars, outcome, client>>

\* Client.Close finds pendingAsynCall at 0 and returns
ClientCloseReturns ==
    /\ skel.pc = "close"
    /\ ~Outstanding
    /\ skel' = [skel EXCEPT !.pc = "closed"]
    /\ UNCHANGED <<rpcVars, outcome, client>>

\* Client.Call1(id, x) of goroutine t, its only call, up to its channel send
Call1(t, id, x) ==
    /\ rpcCall[t].pc = "idle"
    /\ goHist[t] = <<>>
    /\ IF id \notin rpc.functions
       THEN /\ GoReturn(t, [id |-> id, args |-> <<x>>, eff |-> "function not registered",
                            ret |-> NoRet])
            /\ UNCHANGED rpcCall
       ELSE /\ rpcCall' = [rpcCall EXCEPT ![t] =
                             [pc |-> "send", ci |-> CallInfo(id, <<x>>, t, "sync", 0),
                              chanSyncRet |-> <<>>]]
            /\ UNCHANGED goHist
    /\ UNCHANGED <<rpc, executed, owner, asynVars, modVars, accVars, dbqVars>>

\* c.call(ci, true) of Call1: the send completes into the buffer, or it
\* panics on the closed channel and call returns the recovered error
Call1Send(t) ==
    /\ rpcCall[t].pc = "send"
    /\ IF rpc.closed
       THEN /\ GoReturn(t, [id |-> rpcCall[t].ci.id, args |-> rpcCall[t].ci.args,
                            eff |-> "send on closed channel", ret |-> NoRet])
            /\ rpcCall' = [rpcCall EXCEPT ![t] = NoCall]
            /\ UNCHANGED rpc
       ELSE /\ Len(rpc.chanCall) < rpc.cap
            /\ rpc' = [rpc EXCEPT !.chanCall = Append(@, rpcCall[t].ci)]
            /\ rpcCall' = [rpcCall EXCEPT ![t].pc = "wait"]
            /\ UNCHANGED goHist
    /\ UNCHANGED <<executed, owner, asynVars, modVars, accVars, dbqVars>>

\* the owner receives the call straight from the sender of Call1
Call1Handoff(t) ==
    /\ owner = "select"
    /\ rpc.chanCall = <<>>
    /\ ~rpc.closed
    /\ rpcCall[t].pc = "send"
    /\ executed' = Append(executed, rpcCall[t].ci)
    /\ rpcCall' = [rpcCall EXCEPT ![t].pc = "wait"]
    /\ owner' = "exec"
    /\ UNCHANGED <<rpc, goHist, asynVars, modVars, accVars, dbqVars>>

\* Call1: ri := <-c.chanSyncRet; return ri.ret, ri.err
Call1Returns(t) ==
    /\ rpcCall[t].pc = "wait"
    /\ rpcCall[t].chanSyncRet # <<>>
    /\ LET ri == rpcCall[t].chanSyncRet[1]
       IN  GoReturn(t, [id |-> rpcCall[t].ci.id, args |-> rpcCall[t].ci.args,
                        eff |-> ri.err, ret |-> ri.ret])
    /\ rpcCall' = [rpcCall EXCEPT ![t] = NoCall]
    /\ UNCHANGED <<rpc, executed, owner, asynVars, modVars, accVars, dbqVars>>

\* the arguments the callers pass
AsynArgs == {42}

SkelAsynCall == \E id \in AsynIds, x \in AsynArgs : AsynCall(id, x) /\ UNCHANGED rpcOthers

SkelCb == Cb /\ UNCHANGED rpcOthers

SkelClose == ClientClose /\ UNCHANGED rpcOthers

SkelCloseReturns == ClientCloseReturns /\ UNCHANGED rpcOthers

SyncCall == \E t \in SyncCallers, id \in AsynIds, x \in AsynArgs : Call1(t, id, x) /\ UNCHANGED rpcOthers

SyncSend == \E t \in SyncCallers : Call1Send(t) /\ UNCHANGED rpcOthers

SyncHandoff == \E t \in SyncCallers : Call1Handoff(t) /\ UNCHANGED rpcOthers

SyncReturns == \E t \in SyncCallers : Call1Returns(t) /\ UNCHANGED rpcOthers

AsynExecBuffered == ExecBuffered /\ UNCHANGED <<rpcOthers, asynVars, modVars, accVars, dbqVars>>

AsynExecReturns == ExecReturns /\ UNCHANGED rpcOthers

AsynServerClose == ServerClose /\ UNCHANGED rpcOthers

NextAsyn ==
    \/ SkelAsynCall \/ SkelCb \/ SkelClose \/ SkelCloseReturns
    \/ SyncCall \/ SyncSend \/ SyncHandoff \/ SyncReturns
    \/ AsynExecBuffered \/ AsynExecReturns \/ AsynServerClose

SpecAsyn == InitAsyn /\ [][NextAsyn]_vars

\* the Skeleton's loop, the Server's owner and the blocking caller are
\* goroutines that run when they can take a step
AsynFairness ==
    /\ WF_vars(SkelCb) /\ WF_vars(SkelCloseReturns)
    /\ WF_vars(AsynExecBuffered) /\ WF_vars(AsynExecReturns)
    /\ WF_vars(SyncSend) /\ WF_vars(SyncHandoff) /\ WF_vars(SyncReturns)

SpecAsynFair == SpecAsyn /\ AsynFairness

(***************************************************************************)
(* Properties of the chanrpc Client                                        *)
(***************************************************************************)
\* the callbacks run for the Skeleton's k-th AsynCall, and the executions
\* of that call by the Server's owner
CbFor(k) == {i \in DOMAIN skel.cbs : skel.cbs[i].cb = k}

ExecOf(k) == {j \in DOMAIN executed : executed[j].chanRet = "asyn" /\ executed[j].cb = k}

\* call k waits in the Server's channel
Queued(k) ==
    \E j \in DOMAIN rpc.chanCall : rpc.chanCall[j].chanRet = "asyn" /\ rpc.chanCall[j].cb = k

\* C22 as stated: every callback of an AsynCall is run once, after the
\* Server has finished executing the call, with the value the function
\* returned and a nil error
AsynCallbackAfterExec ==
    /\ \A k \in 1..skel.issued : Cardinality(CbFor(k)) <= 1
    /\ \A i \in DOMAIN skel.cbs :
           LET e == skel.cbs[i]
           IN  \E j \in ExecOf(e.cb) :
                   /\ j <= Len(outcome)
                   /\ e.err = "nil"
                   /\ e.ret = Work(executed[j].args)

\* C22 amended: the callback of every AsynCall is run exactly once, by the
\* Skeleton's goroutine; for a call the Server executed, after the
\* execution has finished, with the function's value and a nil error when
\* it returned and an error when it panicked; for a call that did not
\* reach the Server's owner, with an error, and the function never runs
AsynCallbackOnce ==
    /\ [](\A k \in 1..skel.issued :
             Cardinality(CbFor(k)) <= 1 /\ Cardinality(ExecOf(k)) <= 1)
    /\ [](\A i \in DOMAIN skel.cbs :
             LET e == skel.cbs[i]
             IN  /\ e.cb \in 1..skel.issued
                 /\ e.err = "nil" =>
                        /\ e.at # "AsynCall"
                        /\ \E j \in ExecOf(e.cb) :
                               /\ j <= Len(outcome) /\ outcome[j] = "ok"
                               /\ e.ret = Work(executed[j].args)
                 /\ e.err = "panic" =>
                        \E j \in ExecOf(e.cb) : j <= Len(outcome) /\ outcome[j] = "panic"
                 /\ e.err \notin {"nil", "panic"} =>
                        ExecOf(e.cb) = {} /\ ~Queued(e.cb))
    /\ \A k \in 1..MaxAsyn : (skel.issued >= k) ~> (CbFor(k) # {})

\* Work(42) returned 43 on the Server and the callback of the first
\* AsynCall got (43, nil) from the loop of Run
AsynCallbackOnceWitness ==
    /\ skel.cbs # <<>>
    /\ skel.cbs[1] = [cb |-> 1, ret |-> 43, err |-> "nil", at |-> "Run"]
    /\ executed[1].args = <<42>> /\ outcome[1] = "ok"

\* C23: an AsynCall made while the outstanding calls equal the capacity of
\* ChanAsynRet runs its callback with "too many calls" inside AsynCall,
\* puts nothing on the Server's channel or on ChanAsynRet, and leaves
\* pendingAsynCall as it was
TooManyCallsFailsAtOnce ==
    [][ skel'.issued # skel.issued /\ client.pendingAsynCall = client.cap =>
            /\ skel' = [skel EXCEPT
                          !.issued = @ + 1,
                          !.cbs = Append(@, [cb |-> skel.issued + 1, ret |-> NoRet,
                                             err |-> "too many calls", at |-> "AsynCall"])]
            /\ client' = client
            /\ rpc' = rpc /\ executed' = executed /\ owner' = owner ]_vars

\* the second AsynCall of a Skeleton with AsynCallLen 1 was turned down
\* while the first was outstanding
TooManyCallsFailsAtOnceWitness ==
    /\ client.cap = 1 /\ client.pendingAsynCall = 1
    /\ skel.issued = 2
    /\ skel.cbs = <<[cb |-> 2, ret |-> NoRet, err |-> "too many calls", at |-> "AsynCall"]>>

\* the Server's channel can take a call at once: it has room, or it is
\* empty with the owner at its receive
CanTake == Len(rpc.chanCall) < rpc.cap \/ (rpc.chanCall = <<>> /\ owner = "select")

\* C24: AsynCall never waits for the Server's channel: the Skeleton's
\* goroutine is never stuck in it, and an AsynCall that finds the channel
\* closed or unable to take the call returns having only put the error for
\* its callback on ChanAsynRet; the function of such a call is never run and
\* the callback gets the error, once
AsynCallNeverBlocks ==
    /\ [](skel.pc # "blocked")
    /\ [][ /\ skel'.issued # skel.issued
           /\ ~TooManyCalls
           /\ rpc.closed \/ ~CanTake
           => /\ \E err \in {"function not registered", "chanrpc channel full",
                              "send on closed channel"} :
                     client' = [client EXCEPT
                                  !.chanAsynRet = Append(@, RetInfo(NoRet, err, skel'.issued)),
                                  !.pendingAsynCall = @ + 1]
              /\ skel' = [skel EXCEPT !.issued = @ + 1]
              /\ rpc' = rpc /\ executed' = executed /\ owner' = owner ]_vars
    /\ [](\A k \in 1..skel.issued :
             (\E i \in DOMAIN client.chanAsynRet :
                  /\ client.chanAsynRet[i].cb = k
                  /\ client.chanAsynRet[i].err \in {"chanrpc channel full",
                                                     "send on closed channel"})
             => ExecOf(k) = {} /\ ~Queued(k) /\ CbFor(k) = {})
    /\ [](\A i \in DOMAIN skel.cbs :
             skel.cbs[i].err \in {"chanrpc channel full", "send on closed channel"} =>
                 /\ ExecOf(skel.cbs[i].cb) = {}
                 /\ Cardinality(CbFor(skel.cbs[i].cb)) = 1)
    /\ \A k \in 1..MaxAsyn :
           (\E i \in DOMAIN client.chanAsynRet : client.chanAsynRet[i].cb = k)
               ~> (CbFor(k) # {})

\* the channel of the Server was full when the Skeleton made its first
\* AsynCall, and closed when it made the second: both callbacks got
\* the error from the loop and nothing of the Skeleton's was executed
AsynCallNeverBlocksWitness ==
    /\ Len(skel.cbs) = 2
    /\ skel.cbs[1] = [cb |-> 1, ret |-> NoRet, err |-> "chanrpc channel full", at |-> "Run"]
    /\ skel.cbs[2].err = "send on closed channel"
    /\ \A j \in DOMAIN executed : executed[j].from # SkelId
    /\ skel.pc = "select"

\* C25: when Client.Close has returned, pendingAsynCall is 0 and the
\* callback of every AsynCall the Skeleton made has been run; Close returns
\* in the end, the Server's owner executing its queued calls or closing
CloseDrainsAsynCalls ==
    /\ [](skel.pc = "closed" =>
             /\ client.pendingAsynCall = 0
             /\ client.chanAsynRet = <<>>
             /\ \A k \in 1..skel.issued : Cardinality(CbFor(k)) = 1)
    /\ [][skel.pc = "close" /\ skel'.pc = "closed" =>
             client.pendingAsynCall = 0 /\ client' = client]_vars
    /\ (skel.pc = "close") ~> (skel.pc = "closed")

\* Close began with one call outstanding, ran its callback and returned
CloseDrainsAsynCallsWitness ==
    /\ skel.pc = "closed"
    /\ \E i \in DOMAIN skel.cbs : skel.cbs[i].at = "Close" /\ skel.cbs[i].err = "nil"

\* C26: a panic of a function does not leave Exec: the owner is back at
\* its select; when the call has a return channel, an error result for it is
\* put on that channel; and the calls queued on the Server are still
\* executed (unless the owner closes the Server)
PanicContained ==
    /\ [](owner # "crashed")
    /\ [][ Len(outcome') > Len(outcome) /\ outcome'[Len(outcome')] = "panic" =>
            LET ci == executed[Len(executed)]
                ri == RetInfo(NoRet, "panic", ci.cb)
            IN  /\ owner = "exec" /\ owner' = "select"
                /\ ci.id = PanicId
                /\ ci.chanRet = "asyn" =>
                       client'.chanAsynRet = Append(client.chanAsynRet, ri)
                /\ ci.chanRet = "sync" =>
                       rpcCall'[ci.from].chanSyncRet = <<ri>>
                /\ rpc' = rpc /\ executed' = executed ]_vars
    /\ \A k \in 1..MaxAsyn : Queued(k) ~> (ExecOf(k) # {} \/ rpc.closed)
    /\ (owner = "exec") ~> (owner = "select")

\* the function called with Call1 panicked and the caller got the error;
\* the owner then executed a call of the Skeleton, which returned
PanicContainedWitness ==
    /\ Len(outcome) = 2 /\ outcome[1] = "panic" /\ outcome[2] = "ok"
    /\ executed[1].chanRet = "sync" /\ executed[2].chanRet = "asyn"
    /\ goHist[-1] # <<>> /\ goHist[-1][1].eff = "panic"

\* the step in which the Server's owner closes it
Closes == ~rpc.closed /\ rpc'.closed

\* Server.Close answers every call in its channel that has a return
\* channel with "server closed" on that channel
QueuedAnswered ==
    Closes =>
        /\ \A j \in DOMAIN rpc.chanCall :
               LET ci == rpc.chanCall[j]
                   ri == RetInfo(NoRet, "server closed", ci.cb)
               IN  /\ ci.chanRet = "asyn" =>
                          \E i \in DOMAIN client'.chanAsynRet : client'.chanAsynRet[i] = ri
                   /\ ci.chanRet = "sync" => rpcCall'[ci.from].chanSyncRet = <<ri>>
        /\ rpc'.chanCall = <<>>

\* C27 as stated: the close answers with "server closed", on the return
\* channel, the calls queued in the channel and the callers blocked in their
\* send as well
ServerCloseAnswersPending ==
    [][ /\ QueuedAnswered
        /\ \A t \in SyncCallers :
               Closes /\ rpcCall[t].pc = "send" =>
                   rpcCall'[t].chanSyncRet = <<RetInfo(NoRet, "server closed", 0)>> ]_vars

\* C27 amended: the close answers the queued calls with "server closed" on
\* their return channel; a caller blocked in its send gets nothing on its
\* return channel: its send panics, and the call returns the recovered
\* error; no caller of a blocking call stays in it once the Server is closed
ServerCloseEndsPending ==
    /\ [][ /\ QueuedAnswered
           /\ \A t \in SyncCallers :
                  /\ Closes /\ rpcCall[t].pc = "send" => rpcCall'[t] = rpcCall[t]
                  /\ rpc.closed /\ rpcCall[t].pc = "send" /\ rpcCall'[t] # rpcCall[t] =>
                         /\ rpcCall'[t] = NoCall
                         /\ goHist'[t] = Append(goHist[t],
                                [id |-> rpcCall[t].ci.id, args |-> rpcCall[t].ci.args,
                                 eff |-> "send on closed channel", ret |-> NoRet]) ]_vars
    /\ \A t \in SyncCallers : (rpc.closed /\ rpcCall[t].pc # "idle") ~> (rpcCall[t].pc = "idle")

\* the Server was closed with the blocking call in its channel and the
\* caller returned with "server closed"
ServerCloseEndsPendingWitness ==
    /\ rpc.closed /\ rpc.cap = 1
    /\ goHist[-1] # <<>> /\ goHist[-1][1].eff = "server closed"
    /\ \A j \in DOMAIN executed : executed[j].from # -1

\* the AsynCalls waiting in the Server's channel
AsynQueued == Cardinality({i \in DOMAIN rpc.chanCall : rpc.chanCall[i].chanRet = "asyn"})

\* the Server's owner is executing an AsynCall, whose result it will send
ExecutingAsyn == owner = "exec" /\ executed[Len(executed)].chanRet = "asyn"

\* C38: with the Client used from the Skeleton's goroutine alone,
\* 0 <= pendingAsynCall <= cap(ChanAsynRet) and ChanAsynRet never holds more
\* than its capacity, so that no send on it waits: the result of a call
\* being executed finds room, the drain of Server.Close finds room for
\* every queued AsynCall, and the error path of asynCall never leaves the
\* Skeleton's goroutine stuck
AsynRetNeverBlocks ==
    /\ 0 <= client.pendingAsynCall /\ client.pendingAsynCall <= client.cap
    /\ Len(client.chanAsynRet) <= client.cap
    /\ ExecutingAsyn => Len(client.chanAsynRet) < client.cap
    /\ ~rpc.closed => Len(client.chanAsynRet) + AsynQueued <= client.cap
    /\ skel.pc # "blocked"

\* ChanAsynRet is full: Server.Close put the error of a queued AsynCall on
\* it, and as many calls are pending as the channel holds
AsynRetNeverBlocksWitness ==
    /\ rpc.closed
    /\ client.pendingAsynCall = client.cap
    /\ Len(client.chanAsynRet) = client.cap
    /\ client.chanAsynRet[1].err = "server closed"
    /\ \E i \in DOMAIN skel.cbs : skel.cbs[i].err = "too many calls"

\* the error RetInfo of Server.Close for call ci
ClosedInfo(ci) == RetInfo(NoRet, "server closed", ci.cb)

\* the RetInfos that were sent on ChanAsynRet for the Skeleton's k-th
\* AsynCall: those still in the channel and those the Skeleton received
InChan(k) == {i \in DOMAIN client.chanAsynRet : client.chanAsynRet[i].cb = k}

Received(k) == {i \in CbFor(k) : skel.cbs[i].at # "AsynCall"}

Delivered(k) == Cardinality(InChan(k)) + Cardinality(Received(k))

\* what was sent on ChanAsynRet for call k
SentFor(k) ==
    {[ret |-> client.chanAsynRet[i].ret, err |-> client.chanAsynRet[i].err] : i \in InChan(k)}
        \cup {[ret |-> skel.cbs[i].ret, err |-> skel.cbs[i].err] : i \in Received(k)}

\* what exec passes to ret for the j-th executed call
ResultOf(j) ==
    IF outcome[j] = "ok" THEN [ret |-> Work(executed[j].args), err |-> "nil"]
                         ELSE [ret |-> NoRet, err |-> "panic"]

\* the caller of Call1 holds the one RetInfo r of its call: in chanSyncRet,
\* or as what Call1 returned
SyncHolds(t, r) ==
    \/ rpcCall[t].pc = "wait" /\ rpcCall[t].chanSyncRet = <<RetInfo(r.ret, r.err, 0)>>
    \/ /\ rpcCall[t].pc = "idle"
       /\ Len(goHist[t]) = 1 /\ goHist[t][1].ret = r.ret /\ goHist[t][1].eff = r.err

\* C39: for every call with a return channel that the Server's owner took
\* and finished executing, or that Server.Close drained, exactly one RetInfo
\* was sent on that channel: the function's value, the error of its panic,
\* or the error of the closed server; never none, never two
ExactlyOneRet ==
    /\ [](\A k \in 1..skel.issued : Delivered(k) <= 1)
    /\ [](\A j \in DOMAIN outcome :
             /\ executed[j].chanRet = "asyn" =>
                    Delivered(executed[j].cb) = 1 /\ SentFor(executed[j].cb) = {ResultOf(j)}
             /\ executed[j].chanRet = "sync" => SyncHolds(executed[j].from, ResultOf(j)))
    /\ [][~rpc.closed /\ rpc'.closed =>
             \A i \in DOMAIN rpc.chanCall :
                 LET ci == rpc.chanCall[i]
                 IN  /\ ci.chanRet = "asyn" =>
                            \A k \in {ci.cb} :
                                /\ Delivered(k) = 0
                                /\ Delivered(k)' = 1
                                /\ SentFor(k)' = {[ret |-> NoRet, err |-> "server closed"]}
                     /\ ci.chanRet = "sync" =>
                            \A t \in {ci.from} :
                                /\ rpcCall[t].chanSyncRet = <<>>
                                /\ rpcCall'[t].chanSyncRet =
                                       <<RetInfo(NoRet, "server closed", 0)>>]_vars

\* of three calls with a return channel, one returned, one panicked and
\* one was drained by Server.Close: each got its one RetInfo
ExactlyOneRetWitness ==
    /\ rpc.closed
    /\ \E j \in DOMAIN outcome : outcome[j] = "ok" /\ executed[j].chanRet # "nil"
    /\ \E j \in DOMAIN outcome : outcome[j] = "panic" /\ executed[j].chanRet # "nil"
    /\ \E k \in 1..skel.issued :
           SentFor(k) = {[ret |-> NoRet, err |-> "server closed"]} /\ ExecOf(k) = {}

(***************************************************************************)
(* The clients on their own, with the progress their goroutines make: a    *)
(* goroutine that can take its next step takes it; ReadMsg on a closed     *)
(* stream fails, so that the agent's Run returns; OnClose returns.         *)
(***************************************************************************)
InitCli == InitSup /\ sup.kind \in Clients

NextCli ==
    \/ CliDial \/ CliDialFails \/ CliHandle \/ CliAfterConn \/ CliRedial
    \/ AgentRunReturns \/ AgentConnClose \/ AgentConnCloseSend \/ AgentConnDelete
    \/ AgentOnCloseStart \/ AgentOnCloseReturns
    \/ SupCloseConns \/ SupWaitConns
    \/ SupWriter

SpecCli == InitCli /\ [][NextCli]_vars

\* Run returns, the stream of its connection being closed
RunEnds == \E c \in ConnIds : tc[c].netClosed /\ RunReturns(c) /\ UNCHANGED supRest

CliFairness ==
    /\ WF_vars(CliDialFails) /\ WF_vars(CliHandle)
    /\ WF_vars(CliAfterConn) /\ WF_vars(CliRedial)
    /\ WF_vars(RunEnds)
    /\ WF_vars(AgentConnClose) /\ WF_vars(AgentConnCloseSend)
    /\ WF_vars(AgentConnDelete)
    /\ WF_vars(AgentOnCloseStart) /\ WF_vars(AgentOnCloseReturns)
    /\ WF_vars(SupWaitConns)

SpecCliFair == SpecCli /\ CliFairness

\* the connect() goroutine of a slot has ended (or the slot is not in use)
WorkerOver(s) == wk[s].pc \in {"none", "done"}

\* C30: once a client's Close has set the shutdown flag, every connect()
\* goroutine ends, wherever it was and with AutoReconnect on or off, and
\* Close returns; when Close has returned no connect() goroutine and no
\* agent is live, and no agent is created afterwards
ClientShutdownTerminates ==
    /\ [](cl = "returned" =>
            /\ \A s \in Slots : WorkerOver(s)
            /\ \A c \in ConnIds : ReaderOver(c)
            /\ sup.wgConns = 0)
    /\ [][cl = "returned" => \A c \in ConnIds : HasAgent(c)' => HasAgent(c)]_vars
    /\ (sup.closeFlag ~> (cl = "returned" /\ \A s \in Slots : WorkerOver(s)))

\* Close has returned on a reconnecting client with two slots: one
\* connection had its agent, whose OnClose has run, the other was dialled
\* and given up in handleConnection
ClientShutdownTerminatesWitness ==
    /\ sup.kind \in Clients /\ cl = "returned"
    /\ sup.autoReconnect /\ sup.connNum = 2
    /\ \E c \in ConnIds : onClose[c] = 1 /\ tc[c].netClosed
    /\ \E c \in ConnIds : rd[c] = "refused"

\* the agent of connection c is live: made, and its OnClose not yet over
LiveAgent(c) == HasAgent(c) /\ rd[c] # "done"

\* the step a connect() goroutine may take from where it is
SlotStep(s) ==
    CASE wk[s].pc = "dial" ->
            \/ wk'[s].pc = "handle"
            \/ wk'[s].pc = "done" /\ sup.closeFlag
      [] wk[s].pc = "handle" ->
            \/ wk'[s].pc = "conn" /\ ~sup.closeFlag /\ rd'[wk'[s].cur] = "run"
            \/ wk'[s].pc = "done" /\ sup.closeFlag
      [] wk[s].pc = "conn" ->
            /\ rd[wk[s].cur] = "done"
            /\ wk'[s].pc = IF sup.autoReconnect THEN "sleep" ELSE "done"
      [] wk[s].pc = "sleep" -> wk'[s].pc = "dial"
      [] OTHER -> FALSE

\* C31: a slot goes from dialling to connected and, its agent over, either
\* ends (AutoReconnect off: one agent per slot at most) or sleeps and dials
\* again (AutoReconnect on); only a closed client makes it end elsewhere; a
\* slot has one live agent at most, and every live agent is some slot's
SlotLifecycle ==
    /\ [][\A s \in Slots : wk'[s].pc # wk[s].pc => SlotStep(s)]_vars
    /\ [](\A c \in ConnIds :
            LiveAgent(c) => \E s \in Slots : wk[s].pc = "conn" /\ wk[s].cur = c)
    /\ [](\A s, t \in Slots :
            (s # t /\ wk[s].pc = "conn" /\ wk[t].pc = "conn") => wk[s].cur # wk[t].cur)
    /\ [](~sup.autoReconnect =>
            Cardinality({c \in ConnIds : HasAgent(c)}) <= sup.connNum)
    /\ \A s \in Slots :
           (sup.autoReconnect /\ wk[s].pc = "conn" /\ rd[wk[s].cur] = "done")
               ~> (wk[s].pc = "dial")

\* a reconnecting client's only slot runs its second agent, the first over
SlotLifecycleWitness ==
    /\ sup.autoReconnect /\ sup.connNum = 1 /\ ~sup.closeFlag
    /\ wk[1] = [pc |-> "conn", cur |-> 2]
    /\ rd[1] = "done" /\ onClose[1] = 1
    /\ rd[2] = "run"

(***************************************************************************)
(* The accept loop on its own: timeouts, connections and the error that    *)
(* ends it, in any order.                                                  *)
(***************************************************************************)
InitAccept ==
    /\ msgParser = ConnParser
    /\ IdleParser
    /\ IdleConns
    /\ IdleSup
    /\ IdleProc
    /\ IdleRpc
    /\ IdleAsyn
    /\ IdleMod
    /\ IdleDbq
    /\ acc = NewAcceptLoop

accRest ==
    <<msgParser, parserVars, connVars, supVars, procVars, rpcVars, asynVars, modVars, dbqVars>>

LnTimeout == AcceptTimeout /\ UNCHANGED accRest

LnSleepOver == AcceptSleepOver /\ UNCHANGED accRest

LnAccept == AcceptOk /\ UNCHANGED accRest

LnError == AcceptError /\ UNCHANGED accRest

NextAccept == LnTimeout \/ LnSleepOver \/ LnAccept \/ LnError

SpecAccept == InitAccept /\ [][NextAccept]_vars

Min(a, b) == IF a < b THEN a ELSE b

MaxQueueLimit == 2

InitDbq ==
    /\ msgParser = ConnParser
    /\ IdleParser
    /\ IdleConns
    /\ IdleSup
    /\ IdleProc
    /\ IdleRpc
    /\ IdleAsyn
    /\ IdleMod
    /\ IdleAcc
    /\ dbq \in {StartQueueTask(NewDbQueue(l)) : l \in 1..MaxQueueLimit}

dbqRest ==
    <<msgParser, parserVars, connVars, supVars, procVars, rpcVars, asynVars, modVars, accVars>>

DbqPut == \E t \in Apps : PutToQueue(t) /\ UNCHANGED dbqRest

DbqPutSend == \E t \in Apps : PutSend(t) /\ UNCHANGED dbqRest

DbqTaskRange == TaskRange /\ UNCHANGED dbqRest

DbqTaskBody == TaskBody /\ UNCHANGED dbqRest

DbqDestroy == DestroyBegins /\ UNCHANGED dbqRest

DbqDestroySend == DestroySend /\ UNCHANGED dbqRest

DbqDestroyReturns == DestroyReturns /\ UNCHANGED dbqRest

NextDbq ==
    \/ DbqPut \/ DbqPutSend \/ DbqTaskRange \/ DbqTaskBody
    \/ DbqDestroy \/ DbqDestroySend \/ DbqDestroyReturns

SpecDbq == InitDbq /\ [][NextDbq]_vars

\* the task, the goroutine in Destroy and the goroutines at their channel
\* send run when they can take a step
DbqFairness ==
    /\ WF_vars(DbqTaskRange) /\ WF_vars(DbqTaskBody)
    /\ WF_vars(DbqDestroySend) /\ WF_vars(DbqDestroyReturns)
    /\ WF_vars(DbqPutSend)

SpecDbqFair == SpecDbq /\ DbqFairness

\* the strings the task has executed
Execd == {dbq.execd[i] : i \in DOMAIN dbq.execd}

\* C40: with the task running, a Destroy that was called returns, and
\* every string PutToQueue accepted (it sent the string on the channel and
\* returned), a put racing with Destroy included, is executed by the task
\* before the task ends
DestroyDrainsQueue ==
    /\ (dbq.destroy # "idle") ~> (dbq.destroy = "returned")
    /\ [](dbq.task = "done" => dbq.accepted \subseteq Execd)

(***************************************************************************)
(* The modules on their own: Register for each module, Init, and Destroy   *)
(* at any moment after Init has returned.                                  *)
(***************************************************************************)
InitMod ==
    /\ msgParser = ConnParser
    /\ IdleParser
    /\ IdleConns
    /\ IdleSup
    /\ IdleProc
    /\ IdleRpc
    /\ IdleAsyn
    /\ IdleAcc
    /\ IdleDbq
    /\ mod \in {Registers(n) : n \in 1..MaxMods}

modRest ==
    <<msgParser, parserVars, connVars, supVars, procVars, rpcVars, asynVars, accVars, dbqVars>>

MainInit == ModInit /\ UNCHANGED modRest

MainOnInit == ModOnInit /\ UNCHANGED modRest

MainOnInitReturns == ModOnInitReturns /\ UNCHANGED modRest

GoRun == \E m \in ModIds : ModRun(m) /\ UNCHANGED modRest

GoRunReturns == \E m \in ModIds : ModRunReturns(m) /\ UNCHANGED modRest

GoDone == \E m \in ModIds : ModDone(m) /\ UNCHANGED modRest

MainDestroy == ModDestroy /\ UNCHANGED modRest

MainSignal == ModSignal /\ UNCHANGED modRest

MainOnDestroy == ModOnDestroy /\ UNCHANGED modRest

MainOnDestroyEnds == ModOnDestroyEnds /\ UNCHANGED modRest

NextMod ==
    \/ MainInit \/ MainOnInit \/ MainOnInitReturns
    \/ GoRun \/ GoRunReturns \/ GoDone
    \/ MainDestroy \/ MainSignal \/ MainOnDestroy \/ MainOnDestroyEnds

SpecMod == InitMod /\ [][NextMod]_vars

(***************************************************************************)
(* Properties of the modules                                               *)
(***************************************************************************)
\* the place of an event in the trace, 0 when it has not happened
Pos(ev, m) ==
    IF \E k \in DOMAIN mod.trace : mod.trace[k] = <<ev, m>>
    THEN CHOOSE k \in DOMAIN mod.trace : mod.trace[k] = <<ev, m>>
    ELSE 0

\* the modules of the events of one kind, in the order of the trace
Order(ev) ==
    LET q == SelectSeq(mod.trace, LAMBDA e : e[1] = ev)
    IN  [k \in DOMAIN q |-> q[k][2]]

\* C28: Destroy calls OnDestroy on the last registered module first and
\* then backwards; a module's OnDestroy starts after its Run has returned,
\* and before the shutdown signal of the module before it is sent
DestroyInReverse ==
    /\ \A k \in DOMAIN Order("OnDestroy") : Order("OnDestroy")[k] = mod.n - k + 1
    /\ \A m \in 1..mod.n :
           /\ Pos("OnDestroy", m) # 0 =>
                  /\ Pos("Run", m) # 0
                  /\ Pos("Run", m) < Pos("RunReturns", m)
                  /\ Pos("RunReturns", m) < Pos("OnDestroy", m)
                  /\ mod.st[m] = "done"
           /\ m > 1 /\ Pos("Signal", m - 1) # 0 =>
                  /\ Pos("OnDestroy", m) # 0
                  /\ Pos("OnDestroy", m) < Pos("Signal", m - 1)

\* three modules were destroyed, the OnDestroy of the second panicking
DestroyInReverseWitness ==
    /\ mod.n = 3 /\ mod.pc = "destroyed"
    /\ Order("OnDestroy") = <<3, 2, 1>>
    /\ Pos("OnDestroyPanics", 2) # 0

\* C29: Init calls OnInit in registration order, and no Run has begun
\* before OnInit has returned for every registered module
InitBeforeAnyRun ==
    /\ \A k \in DOMAIN Order("OnInit") : Order("OnInit")[k] = k
    /\ \A m \in 1..mod.n :
           Pos("Run", m) # 0 =>
               \A j \in 1..mod.n :
                   Pos("OnInitReturns", j) # 0 /\ Pos("OnInitReturns", j) < Pos("Run", m)

(***************************************************************************)
(* Skeleton.Run and its shutdown.  The Skeleton's goroutine owns the       *)
(* application server rpc, the command server, the pool of Go and the       *)
(* Client; its AsynCalls go to its own server, whose channel is buffered.   *)
(* Other goroutines call the server with Go and Call1.                      *)
(***************************************************************************)
\* the works Skeleton.Go may start
MaxPool == 1

InitShut ==
    /\ msgParser = ConnParser
    /\ IdleParser
    /\ IdleConns
    /\ IdleSup
    /\ IdleProc
    /\ IdleMod
    /\ IdleAcc
    /\ IdleDbq
    /\ rpc \in {[NewServer(l) EXCEPT !.functions = {1, PanicId}] : l \in 1..MaxChan}
    /\ rpcCall = [t \in Callers |-> NoCall]
    /\ goHist = [t \in Callers |-> <<>>]
    /\ executed = <<>>
    /\ owner = "select"
    /\ outcome = <<>>
    /\ client \in {NewClient(l) : l \in 1..MaxAsynCallLen}
    /\ skel = NewSkeleton

shutRest == <<msgParser, parserVars, connVars, supVars, procVars, modVars, accVars, dbqVars>>

\* Go(f, cb) of the pool: pendingGo++ and a goroutine that runs f
PoolGo ==
    /\ skel.g.started < MaxPool
    /\ LET k == skel.g.started + 1
       IN  skel' = [skel EXCEPT !.g.pendingGo = @ + 1, !.g.started = k,
                                !.g.working = @ \cup {k}]

\* f returns on its goroutine, which sends cb on ChanCb (and waits while
\* the channel has no room)
PoolWorkDone(k) ==
    /\ k \in skel.g.working
    /\ Len(skel.g.chanCb) < skel.g.cap
    /\ skel' = [skel EXCEPT !.g.working = @ \ {k}, !.g.chanCb = Append(@, k)]

\* Cb(<-ChanCb) of the pool: cb runs and pendingGo--
PoolCb(at) ==
    /\ skel.g.chanCb # <<>>
    /\ skel' = [skel EXCEPT !.g.chanCb = Tail(@), !.g.pendingGo = @ - 1,
                            !.g.ran = Append(@, [cb |-> Head(skel.g.chanCb), at |-> at])]

\* Idle() of the pool
PoolIdle == skel.g.pendingGo = 0

\* Skeleton.Run's select takes closeSig and enters shutdown
CloseSig ==
    /\ skel.pc = "select"
    /\ owner = "select"
    /\ skel' = [skel EXCEPT !.pc = "shutdown"]

\* Server.Close of a server whose channel holds nothing
CloseEmpty(sv) == [sv EXCEPT !.closed = TRUE]

\* shutdown: s.commandServer.Close()
ShutCommandServer ==
    /\ skel.pc = "shutdown"
    /\ skel' = [skel EXCEPT !.commandServer = CloseEmpty(@), !.pc = "server"]

\* shutdown: s.server.Close(), which closes ChanCall and drains it
ShutServer ==
    /\ skel.pc = "server"
    /\ rpc' = [rpc EXCEPT !.closed = TRUE, !.chanCall = <<>>]
    /\ LET d == Drained(rpc.chanCall, client, rpcCall)
       IN  /\ Len(d.client.chanAsynRet) <= client.cap
           /\ client' = d.client
           /\ rpcCall' = d.rpcCall
    /\ skel' = [skel EXCEPT !.pc = "loop"]

\* a shutdown that returns without waiting
ShutReturnsAtOnce ==
    /\ skel.pc = "loop"
    /\ skel' = [skel EXCEPT !.pc = "returned"]

\* shutdown: for !s.g.Idle() || !s.client.Idle(); past the loop, shutdown
\* and Run return
ShutLoop ==
    /\ skel.pc = "loop"
    /\ skel' = [skel EXCEPT !.pc = IF ~PoolIdle \/ Outstanding THEN "gClose" ELSE "returned"]

\* s.g.Close() returns with pendingGo at 0, and s.client.Close() begins
ShutPoolClosed ==
    /\ skel.pc = "gClose"
    /\ PoolIdle
    /\ skel' = [skel EXCEPT !.pc = "close"]

\* s.client.Close() returns, back to the loop's condition
ShutClientClosed ==
    /\ skel.pc = "close"
    /\ ~Outstanding
    /\ skel' = [skel EXCEPT !.pc = "loop"]

\* the calls of the other goroutines
GoCallers == Apps \ SyncCallers

ShutGo ==
    \E t \in GoCallers :
        /\ goHist[t] = <<>>
        /\ Go(t, 1, <<1>>)
        /\ UNCHANGED rpcRest

ShutGoSend == \E t \in GoCallers : GoSend(t) /\ UNCHANGED rpcRest

ShutCall == \E t \in SyncCallers, x \in AsynArgs : Call1(t, 1, x) /\ UNCHANGED rpcOthers

ShutCallSend == SyncSend

ShutCallReturns == SyncReturns

\* the Skeleton's loop
ShutExecBuffered == skel.pc = "select" /\ AsynExecBuffered

ShutExecReturns == AsynExecReturns

\* an AsynCall to the Skeleton's own server: its goroutine is in AsynCall,
\* not at the receive of ChanCall
ShutAsynCall ==
    /\ owner = "select"
    /\ \E x \in AsynArgs : AsynCall(1, x)
    /\ owner' = owner
    /\ UNCHANGED rpcOthers

\* case ri := <-s.client.ChanAsynRet of Run, or the loop of Client.Close
ShutCb == (skel.pc = "select" => owner = "select") /\ SkelCb

ShutPoolGo ==
    /\ skel.pc = "select" /\ owner = "select"
    /\ PoolGo
    /\ UNCHANGED <<rpcVars, outcome, client, shutRest>>

ShutPoolWorkDone ==
    /\ \E k \in 1..(MaxPool + 1) : PoolWorkDone(k)
    /\ UNCHANGED <<rpcVars, outcome, client, shutRest>>

\* case cb := <-s.g.ChanCb of Run
ShutPoolCb ==
    /\ skel.pc = "select" /\ owner = "select"
    /\ PoolCb("Run")
    /\ UNCHANGED <<rpcVars, outcome, client, shutRest>>

\* the loop of the pool's Close: for pendingGo > 0 { Cb(<-ChanCb) }
ShutPoolCloseCb ==
    /\ skel.pc = "gClose"
    /\ ~PoolIdle
    /\ PoolCb("Close")
    /\ UNCHANGED <<rpcVars, outcome, client, shutRest>>

ShutCloseSig == CloseSig /\ UNCHANGED <<rpcVars, outcome, client, shutRest>>

ShutCloseCommandServer == ShutCommandServer /\ UNCHANGED <<rpcVars, outcome, client, shutRest>>

ShutCloseServer == ShutServer /\ UNCHANGED <<goHist, executed, owner, outcome, shutRest>>

ShutTest == ShutLoop /\ UNCHANGED <<rpcVars, outcome, client, shutRest>>

ShutPoolCloseReturns == ShutPoolClosed /\ UNCHANGED <<rpcVars, outcome, client, shutRest>>

ShutClientCloseReturns == ShutClientClosed /\ UNCHANGED <<rpcVars, outcome, client, shutRest>>

NextShut ==
    \/ ShutGo \/ ShutGoSend \/ ShutCall \/ ShutCallSend \/ ShutCallReturns
    \/ ShutExecBuffered \/ ShutExecReturns \/ ShutAsynCall \/ ShutCb
    \/ ShutPoolGo \/ ShutPoolWorkDone \/ ShutPoolCb \/ ShutPoolCloseCb
    \/ ShutCloseSig \/ ShutCloseCommandServer \/ ShutCloseServer \/ ShutTest
    \/ ShutPoolCloseReturns \/ ShutClientCloseReturns

SpecShut == InitShut /\ [][NextShut]_vars

\* after this step the caller of ci holds, or has been sent, an error for
\* it: on the return channel of ci or, for a call placed with Go, which has
\* none, as the result of that Go
ToldError(ci) ==
    \/ /\ ci.chanRet = "asyn"
       /\ \E j \in DOMAIN client'.chanAsynRet : client'.chanAsynRet[j] = ClosedInfo(ci)
    \/ /\ ci.chanRet = "sync"
       /\ rpcCall'[ci.from].chanSyncRet = <<ClosedInfo(ci)>>
    \/ /\ ci.chanRet = "nil"
       /\ \E k \in DOMAIN goHist'[ci.from] :
              goHist'[ci.from][k].args = ci.args /\ goHist'[ci.from][k].eff # "sent"

\* the servers are closed in shutdown only, the command server first
CloseOrder ==
    /\ skel.pc = "select" => ~skel.commandServer.closed /\ ~rpc.closed
    /\ rpc.closed => skel.commandServer.closed
    /\ skel.pc \in {"loop", "gClose", "close", "returned"} => rpc.closed

\* Run has returned: the pool and the Client are idle
IdleAtReturn ==
    skel.pc = "returned" =>
        /\ skel.g.pendingGo = 0 /\ skel.g.chanCb = <<>>
        /\ client.pendingAsynCall = 0 /\ client.chanAsynRet = <<>>

\* nothing is executed once shutdown has begun
NoExecInShutdown == [][skel.pc # "select" => executed' = executed]_vars

\* every call queued on the server when it is closed, whatever placed it,
\* is answered with an error
ShutdownAnswersAll ==
    [][~rpc.closed /\ rpc'.closed =>
          /\ rpc'.chanCall = <<>>
          /\ \A i \in DOMAIN rpc.chanCall : ToldError(rpc.chanCall[i])]_vars

\* C36 as stated: on the close signal Run closes the command server, then
\* the application server, and returns only with the pool and the Client
\* idle; no call queued on the servers at that moment is executed, and each
\* of them is answered with an error
ShutdownAnswersQueued ==
    /\ []CloseOrder
    /\ []IdleAtReturn
    /\ NoExecInShutdown
    /\ ShutdownAnswersAll

\* C36: on the close signal Run closes the command server, then the
\* application server, and returns only with the pool and the Client idle;
\* no call queued on the servers at that moment is executed; each queued
\* call that carries a return channel is answered with the error "server
\* closed" on it, and a queued call placed with Go is dropped, its caller
\* keeping the result it already had
ShutdownDrains ==
    /\ []CloseOrder
    /\ []IdleAtReturn
    /\ NoExecInShutdown
    /\ [][~rpc.closed /\ rpc'.closed =>
             /\ rpc'.chanCall = <<>>
             /\ goHist' = goHist
             /\ \A i \in DOMAIN rpc.chanCall :
                    rpc.chanCall[i].chanRet # "nil" => ToldError(rpc.chanCall[i])]_vars

\* Run has returned; a Go call and an AsynCall were queued at the close:
\* neither was executed, the AsynCall's callback ran in Client.Close with
\* the error, and the pool's callback ran in its Close
ShutdownDrainsWitness ==
    /\ skel.pc = "returned"
    /\ executed = <<>>
    /\ \E t \in GoCallers : Len(goHist[t]) = 1 /\ goHist[t][1].eff = "sent"
    /\ \E j \in DOMAIN skel.cbs :
           skel.cbs[j].err = "server closed" /\ skel.cbs[j].at = "Close"
    /\ \E j \in DOMAIN skel.g.ran : skel.g.ran[j].at = "Close"

(***************************************************************************)
(* The codec on its own: one end writes frames to a stream, the other      *)
(* end, configured identically, reads them back.                           *)
(***************************************************************************)
LenArgs == {0, 1, 2, 3, 4}
MinArgs == {0, 1, 2}
MaxArgs == {0, 1, 3, 300, 70000}

InitParser ==
    /\ msgParser = NewMsgParser
    /\ IdleParser
    /\ IdleProc
    /\ IdleMod
    /\ IdleAcc
    /\ IdleDbq
    /\ IdleRpc
    /\ IdleAsyn
    /\ IdleConns
    /\ IdleSup

\* the framing parameters are set before any traffic flows
PSetMsgLen ==
    /\ sent = <<>> /\ ~lastRead.done
    /\ \E l \in LenArgs, mn \in MinArgs, mx \in MaxArgs :
          msgParser' = SetMsgLen(msgParser, l, mn, mx)
    /\ UNCHANGED <<wire, sent, lastRead, connVars, supVars, procVars, rpcVars, asynVars, modVars, accVars, dbqVars>>

PSetByteOrder ==
    /\ sent = <<>> /\ ~lastRead.done
    /\ \E b \in BOOLEAN : msgParser' = SetByteOrder(msgParser, b)
    /\ UNCHANGED <<wire, sent, lastRead, connVars, supVars, procVars, rpcVars, asynVars, modVars, accVars, dbqVars>>

\* at most two frames sit on the wire, written and not yet read
PWrite ==
    /\ Len(sent) <= 1
    /\ \E args \in ArgLists :
          LET r == MsgParserWrite(msgParser, args)
          IN  /\ r.err = "nil"
              /\ wire' = wire \o r.msg
              /\ sent' = Append(sent, Concat(args))
    /\ UNCHANGED <<msgParser, lastRead, connVars, supVars, procVars, rpcVars, asynVars, modVars, accVars, dbqVars>>

PRead ==
    /\ sent # <<>>
    /\ LET r == MsgParserRead(msgParser, wire)
       IN  /\ lastRead' = [done |-> TRUE, err |-> r.err, data |-> r.data, n |-> r.n,
                           payload |-> Head(sent)]
           /\ wire' = SubSeq(wire, r.n + 1, Len(wire))
           /\ sent' = Tail(sent)
    /\ UNCHANGED <<msgParser, connVars, supVars, procVars, rpcVars, asynVars, modVars, accVars, dbqVars>>

NextParser == PSetMsgLen \/ PSetByteOrder \/ PWrite \/ PRead

SpecParser == InitParser /\ [][NextParser]_vars

\* C33: whatever SetMsgLen calls were made on a new parser, lenMsgLen is 1,
\* 2 or 4 and minMsgLen <= maxMsgLen <= 2^(8 * lenMsgLen) - 1 (every uint32
\* is within the last bound when lenMsgLen is 4)
ParserLimitsOrdered ==
    /\ msgParser.lenMsgLen \in {1, 2, 4}
    /\ msgParser.minMsgLen <= msgParser.maxMsgLen
    /\ msgParser.lenMsgLen # 4 =>
           msgParser.maxMsgLen <= Pow(256, msgParser.lenMsgLen) - 1

\* C1: a payload within [minMsgLen, maxMsgLen] that MsgParser.Write framed is
\* returned unchanged by MsgParser.Read under the same configuration, and
\* Read consumes exactly lenMsgLen + |payload| bytes of the stream.
FramingRoundTrip ==
    lastRead.done =>
        /\ lastRead.err = "nil"
        /\ lastRead.data = lastRead.payload
        /\ lastRead.n = msgParser.lenMsgLen + Len(lastRead.payload)

FramingRoundTripWitness ==
    /\ lastRead.done
    /\ msgParser.lenMsgLen = 4
    /\ msgParser.littleEndian
    /\ Len(lastRead.payload) = 2
    /\ lastRead.data = lastRead.payload
    /\ wire # <<>>

====
